---------------------------- MODULE Spec2Model ----------------------------
(***************************************************************************)
(* Crawl-orchestration core of MunishMummadi/web-scrapper.                 *)
(*                                                                         *)
(*   SpecCB       the per-host circuit breaker (crawler/circuitbreaker.go) *)
(*                called by concurrent goroutines in any order.            *)
(*   SpecCrawler  the worker loop and the processURL pipeline (package     *)
(*                crawler) over the queue, the store and the breaker.      *)
(*   The other specifications (SpecStop, SpecStopFine, SpecStopTwice,      *)
(*   SpecRun, SpecQueue, SpecStore, SpecLimiter, SpecRobots, SpecProxy,    *)
(*   SpecEnqueue, SpecEitherConfig, SpecCrawlerLate) take one component    *)
(*   or one aspect of the worker each, from the same initial state.        *)
(*                                                                         *)
(* Time is a discrete clock; durations are counted in its ticks.           *)
(***************************************************************************)
EXTENDS Integers, Sequences, FiniteSets, TLC

VARIABLES
    hosts,      \* CircuitBreaker.hosts: host -> *hostCircuit, NoCircuit when absent
    clock,      \* the value time.Now() returns
    tpc,        \* SpecCB: where each goroutine stands inside IsAllowed
    iaNow,      \* SpecCB: IsAllowed's local `now` (read before the write lock)
    probe,      \* SpecCB: per host, the goroutines IsAllowed admitted as half-open probes that have not yet recorded a result
    succRun,    \* SpecCB: RecordSuccess calls since the circuit went half-open, -1 once a RecordFailure intervened
    lateResults, \* SpecCB: per host, whether a RecordSuccess or RecordFailure call found the circuit open
    queue,      \* MemoryQueue.queue
    store,      \* scraped_pages: url -> scraped_at, NoRow when the url has no row
    wpc,        \* SpecCrawler: where each worker stands in worker/processURL
    wurl,       \* worker's urlToScrape
    retries,    \* worker's loop counter `retries`
    perr,       \* worker's processErr: the error of the last processURL call, "nil" for success
    wake,       \* when the worker's backoff time.Sleep ends
    scrapedAt,  \* processURL's local scrapedAt
    attempts,   \* processURL calls made for the url the worker holds
    gates,      \* the gates the current processURL call has run, in order, each with whether it let the call go on
    fetched,    \* per url, the times of the fetches whose processURL call returned success less than CacheExpiration ago
    due,        \* what the dedup lookup of the current call owed to earlier fetches of the url
    results,    \* what each processURL call made for the url the worker holds returned, in order
    stopChan,   \* Crawler.stopChan: TRUE once Stop has closed it
    stopPc,     \* where the caller of Stop stands: "none", "waiting" in c.wg.Wait(), "returned"; "panicked" when a call ended in a run-time panic
    enq,        \* SpecQueue: the urls Enqueue has appended, in order
    deq,        \* SpecQueue: the non-empty urls Dequeue has returned, in order, each with its caller
    spc,        \* SpecStore: where each of the concurrent processURL calls for one url stands
    sAt,        \* SpecStore: each call's local scrapedAt
    limiters,   \* HostRateLimiter.limiters: host -> the limiter's identity, 0 when the host has no entry
    lastUsed,   \* HostRateLimiter.lastUsed: host -> time, NoStamp when the host has no entry
    buckets,    \* the rate.Limiter objects made so far: identity -> tokens left at the time last
    made,       \* how many rate.Limiter objects NewLimiter has made
    lcall,      \* SpecLimiter: each goroutine's Wait or Allow call: position, host, limiter obtained
    admits,     \* SpecLimiter: per host, the times at which Wait or Allow admitted a request
    lhist,      \* SpecLimiter: per host, whether SetRate was called and whether the sweep evicted its entry
    rcache,     \* RobotsCache.cache: host -> robotsEntry, NoEntry when the host has none
    rcall,      \* SpecRobots: each goroutine's RobotsCache.IsAllowed call: position, host, the entry it decided by, what it returned
    metrics,    \* MetricsCollector: the counters queued_urls_total, robots_disallowed_total, scraped_pages_total, scraping_errors_total
    proxies,    \* proxy.Manager.proxies: index -> ProxyServer (Healthy, Failures, Successes)
    pcurrent,   \* proxy.Manager.current, an int32
    pret,       \* SpecProxy: what the last proxyFunc call returned
    enqRet,     \* what the last Crawler.EnqueueURL call returned: "none" before the first call, "nil", or the error
    respectRobots, \* Crawler.cfg.RespectRobots
    lateTakes   \* SpecStopFine: per worker, the urls its Dequeue calls returned after the stop channel was closed

cbVars == <<tpc, iaNow, probe, succRun, lateResults>>
crawlVars == <<queue, store, wpc, wurl, retries, perr, wake, scrapedAt, attempts, gates, fetched, due, results>>
workerVars == <<store, wpc, wurl, retries, perr, wake, scrapedAt, attempts, gates, fetched, due, results>>
stopVars == <<stopChan, stopPc>>
queueVars == <<enq, deq>>
storeVars == <<spc, sAt>>
limVars == <<limiters, lastUsed, buckets, made, lcall, admits, lhist>>
robVars == <<rcache, rcall>>
metricVars == <<metrics>>
proxyVars == <<proxies, pcurrent, pret>>
enqVars == <<enqRet>>
cfgVars == <<respectRobots>>
lateVars == <<lateTakes>>
auxVars == <<stopVars, queueVars, storeVars, limVars, robVars, metricVars, proxyVars, enqVars, cfgVars, lateVars>>
auxNoStop == <<queueVars, storeVars, limVars, robVars, metricVars, proxyVars, enqVars, cfgVars, lateVars>>
auxNoQueue == <<stopVars, storeVars, limVars, robVars, metricVars, proxyVars, enqVars, cfgVars, lateVars>>
auxNoStore == <<stopVars, queueVars, limVars, robVars, metricVars, proxyVars, enqVars, cfgVars, lateVars>>
auxNoLimiter == <<stopVars, queueVars, storeVars, robVars, metricVars, proxyVars, enqVars, cfgVars, lateVars>>
auxNoRobots == <<stopVars, queueVars, storeVars, limVars, metricVars, proxyVars, enqVars, cfgVars, lateVars>>
auxNoMetrics == <<stopVars, queueVars, storeVars, limVars, robVars, proxyVars, enqVars, cfgVars, lateVars>>
auxNoEnqueue == <<stopVars, queueVars, storeVars, limVars, robVars, proxyVars, cfgVars, lateVars>>
auxNoLate == <<stopVars, queueVars, storeVars, limVars, robVars, metricVars, proxyVars, enqVars, cfgVars>>
auxNoProxy == <<stopVars, queueVars, storeVars, limVars, robVars, metricVars, enqVars, cfgVars, lateVars>>
vars == <<hosts, clock, tpc, iaNow, probe, succRun, lateResults,
          queue, store, wpc, wurl, retries, perr, wake, scrapedAt, attempts, gates, fetched, due,
          results, stopChan, stopPc, enq, deq, spc, sAt,
          limiters, lastUsed, buckets, made, lcall, admits, lhist, rcache, rcall, metrics,
          proxies, pcurrent, pret, enqRet, respectRobots, lateTakes>>

---------------------------------------------------------------------------
(* Bounds and parameters *)

MaxClock == 2

\* NewCircuitBreaker's arguments, in ticks and small counts
resetTimeout == 1
succRequiredToClose == 2
rollingWindowSize == 3
hostErrorExpiry == 1

\* crawler.circuitBreakerRatio 0.5 as a fraction
failureThresholdNum == 1
failureThresholdDen == 2

\* the literal floor of RecordFailure: len(circuit.failures) >= 3
FailureFloor == 3

\* time.Time{}: earlier than every clock reading by more than any duration of the model
ZeroTime == -100

Hosts == {"a.test"}
Threads == {"g1", "g2", "g3"}

\* crawler configuration (config.CrawlerConfig), in ticks and small counts
MaxRetries == 1
RetryDelay == 1
CacheExpiration == 1
RespectRobots == TRUE

MaxQueue == 1

\* SpecQueue: how many urls are enqueued in all
MaxEnq == 3

\* the worker's sleep after an empty poll (1 s), in ticks
PollSleep == 1

\* time.Sleep(500 * time.Millisecond) after a Dequeue error, in ticks
ErrSleep == 1
Workers == {"w1"}
\* SpecLimiter: the goroutines calling the rate limiter, and how many
\* rate.Limiter objects are made in all
LimThreads == {"g1", "g2"}
MaxLimiters == 2

\* NewHostRateLimiter's defaultQPS (tokens per tick) and defaultRPS (burst)
defaultQPS == 1
defaultRPS == 2

\* HostRateLimiter.ttl in ticks
limiterTTL == 1

\* no entry in lastUsed
NoStamp == -1

\* a goroutine that is in no rate-limiter call
IdleCall == [pc |-> "idle", op |-> "none", host |-> "", held |-> 0]

\* SpecProxy: cfg.URLs, the pool NewManager builds, indexed from 0 as the slice is
ProxyURLs == <<"http://p0.test", "http://p1.test", "http://p2.test">>
PoolSize == Len(ProxyURLs)
PoolIndex == 0..(PoolSize - 1)

\* a url that is not a proxy of the pool
OtherURL == "http://a.test/"

\* SpecProxy: how many results are recorded for the pool in all
MaxProxyEvents == 6

\* SpecProxy: how far from 0 and from the ends of int32 single proxyFunc calls
\* are followed
MaxCalls == 4

\* the ends of int32
MaxInt32 == 2147483647
MinInt32 == -2147483647 - 1

\* proxy.Failures < 5
maxProxyFailures == 5

\* SpecRobots: the goroutines calling RobotsCache.IsAllowed
RobThreads == {"g1", "g2"}

\* RobotsCache.ttl (24 h) in ticks
robotsTTL == 1

\* what rc.client.Do can come back with: a network error, or a response of
\* one of the status classes; a 2xx response carries a body that parses to
\* rules allowing the path, to rules disallowing it, or does not parse
FetchOutcomes == {"neterr", "2xx-allow", "2xx-disallow", "2xx-bad", "3xx", "4xx", "5xx"}

\* no robotsEntry in the cache
NoEntry == [data |-> "none", fetchedAt |-> 0, status |-> "none"]

\* a goroutine that is in no RobotsCache call
IdleRobots == [pc |-> "idle", host |-> "", used |-> NoEntry, fetched |-> "none", res |-> "none"]

\* SpecStore: the workers whose processURL calls for one url run side by side
Fetchers == {"p1", "p2"}
GoodURL == "http://a.test/"
BadURL == "http://a.test/%zz"
URLs == {GoodURL, BadURL}
NoRow == -1

circuitClosed == "closed"
circuitOpen == "open"
circuitHalfOpen == "halfOpen"

NoCircuit == [state |-> "absent"]

---------------------------------------------------------------------------
(* crawler/circuitbreaker.go *)

\* &hostCircuit{state: circuitClosed, failures: ..., successes: ...}
\* (attemptedResetAt is written by IsAllowed and never read; it is left out)
NewHostCircuit ==
    [state |-> circuitClosed, openedAt |-> ZeroTime, halfOpenSuccess |-> 0,
     failures |-> <<>>, successes |-> <<>>]

\* AppendWindow that never drops an event
AppendWindow_Unbounded(window, t) == Append(window, t)

\* append(window, t); if len(window) > cb.rollingWindowSize { window = window[1:] }
AppendWindow(window, t) ==
    LET a == Append(window, t)
    IN  IF Len(a) > rollingWindowSize THEN Tail(a) ELSE a

RECURSIVE cleanExpiredEvents(_, _)
\* the events left once the leading ones older than now - hostErrorExpiry are dropped
cleanExpiredEvents(events, now) ==
    IF events # <<>> /\ Head(events) < now - hostErrorExpiry
    THEN cleanExpiredEvents(Tail(events), now)
    ELSE events

\* TripCondition without the floor on the number of failures
TripCondition_NoFloor(nf, ns) ==
    nf * failureThresholdDen >= failureThresholdNum * (nf + ns)

\* TripCondition with the floor at two failures
TripCondition_FloorTwo(nf, ns) ==
    /\ nf * failureThresholdDen >= failureThresholdNum * (nf + ns)
    /\ nf >= 2

\* failureRate >= cb.failureThreshold && len(circuit.failures) >= 3
TripCondition(nf, ns) ==
    /\ nf * failureThresholdDen >= failureThresholdNum * (nf + ns)
    /\ nf >= FailureFloor

\* the switch of IsAllowed, taken under cb.mu.Lock(): <<circuit, allowed>>
IsAllowedSwitch(c, now) ==
    CASE c.state = circuitClosed -> <<c, TRUE>>
      [] c.state = circuitOpen ->
            IF now - c.openedAt > resetTimeout
            THEN <<[c EXCEPT !.state = circuitHalfOpen, !.halfOpenSuccess = 0], TRUE>>
            ELSE <<c, FALSE>>
      [] c.state = circuitHalfOpen -> <<c, c.halfOpenSuccess < succRequiredToClose>>
      [] OTHER -> <<c, TRUE>>

\* RecordSuccessSwitch that also closes an open circuit
RecordSuccessSwitch_ClosesOpen(c) ==
    CASE c.state = circuitClosed -> [c EXCEPT !.successes = AppendWindow(@, ZeroTime)]
      [] c.state = circuitHalfOpen ->
            IF c.halfOpenSuccess + 1 >= succRequiredToClose
            THEN [c EXCEPT !.halfOpenSuccess = @ + 1,
                           !.state = circuitClosed,
                           !.failures = <<>>,
                           !.successes = AppendWindow(@, ZeroTime)]
            ELSE [c EXCEPT !.halfOpenSuccess = @ + 1]
      [] c.state = circuitOpen ->
            [c EXCEPT !.state = circuitClosed,
                      !.failures = <<>>,
                      !.successes = AppendWindow(@, ZeroTime)]
      [] OTHER -> c

\* RecordSuccessSwitch that closes the circuit without clearing the failures
RecordSuccessSwitch_KeepsFailures(c) ==
    CASE c.state = circuitClosed -> [c EXCEPT !.successes = AppendWindow(@, ZeroTime)]
      [] c.state = circuitHalfOpen ->
            IF c.halfOpenSuccess + 1 >= succRequiredToClose
            THEN [c EXCEPT !.halfOpenSuccess = @ + 1,
                           !.state = circuitClosed,
                           !.successes = AppendWindow(@, ZeroTime)]
            ELSE [c EXCEPT !.halfOpenSuccess = @ + 1]
      [] OTHER -> c

\* the switch of RecordSuccess; now := time.Time{}; the slice cleanExpiredEvents
\* returns is dropped by the caller, so the windows keep their expired events
RecordSuccessSwitch(c) ==
    CASE c.state = circuitClosed ->
            LET dropped == cleanExpiredEvents(c.failures, clock)
            IN  [c EXCEPT !.successes = AppendWindow(@, ZeroTime)]
      [] c.state = circuitHalfOpen ->
            IF c.halfOpenSuccess + 1 >= succRequiredToClose
            THEN [c EXCEPT !.halfOpenSuccess = @ + 1,
                           !.state = circuitClosed,
                           !.failures = <<>>,
                           !.successes = AppendWindow(@, ZeroTime)]
            ELSE [c EXCEPT !.halfOpenSuccess = @ + 1]
      [] OTHER -> c

\* RecordFailureSwitch that re-opens a half-open circuit without a new openedAt
RecordFailureSwitch_KeepsOpenedAt(c, now) ==
    CASE c.state = circuitClosed ->
            LET f == AppendWindow(c.failures, now)
            IN  IF TripCondition(Len(f), Len(c.successes))
                THEN [c EXCEPT !.failures = f, !.state = circuitOpen, !.openedAt = now]
                ELSE [c EXCEPT !.failures = f]
      [] c.state = circuitHalfOpen -> [c EXCEPT !.state = circuitOpen]
      [] OTHER -> c

\* RecordFailureSwitch that stamps a new openedAt on an open circuit
RecordFailureSwitch_ExtendsOpen(c, now) ==
    CASE c.state = circuitClosed ->
            LET f == AppendWindow(c.failures, now)
            IN  IF TripCondition(Len(f), Len(c.successes))
                THEN [c EXCEPT !.failures = f, !.state = circuitOpen, !.openedAt = now]
                ELSE [c EXCEPT !.failures = f]
      [] c.state \in {circuitHalfOpen, circuitOpen} ->
            [c EXCEPT !.state = circuitOpen, !.openedAt = now]
      [] OTHER -> c

\* the switch of RecordFailure; now := time.Now()
RecordFailureSwitch(c, now) ==
    CASE c.state = circuitClosed ->
            LET f == AppendWindow(c.failures, now)
                droppedF == cleanExpiredEvents(f, now)
                droppedS == cleanExpiredEvents(c.successes, now)
                total == Len(f) + Len(c.successes)
            IN  IF total > 0 /\ TripCondition(Len(f), Len(c.successes))
                THEN [c EXCEPT !.failures = f, !.state = circuitOpen, !.openedAt = now]
                ELSE [c EXCEPT !.failures = f]
      [] c.state = circuitHalfOpen ->
            [c EXCEPT !.state = circuitOpen, !.openedAt = now]
      [] OTHER -> c

\* the body of Reset for an existing circuit
ResetCircuit(c) ==
    [c EXCEPT !.state = circuitClosed, !.failures = <<>>, !.successes = <<>>]

\* circuit, exists = cb.hosts[host]; if !exists { cb.hosts[host] = &hostCircuit{...} }
GetOrCreate(hs, h) ==
    IF hs[h] = NoCircuit THEN [hs EXCEPT ![h] = NewHostCircuit] ELSE hs

\* what GetState returns
StateOf(c) == IF c = NoCircuit THEN circuitClosed ELSE c.state

\* the ghost run of successes since the circuit went half-open
RunAfterSuccess(r) == IF r >= 0 /\ r < succRequiredToClose THEN r + 1 ELSE r

---------------------------------------------------------------------------
(* SpecCB: goroutines calling the breaker *)

\* IsAllowed, lines 56-60 and 78: the read-locked lookup, then now := time.Now()
IsAllowedLookup(t, h) ==
    /\ tpc[t] = "idle"
    /\ tpc' = [tpc EXCEPT ![t] = IF hosts[h] = NoCircuit THEN "create" ELSE "switch"]
    /\ iaNow' = [iaNow EXCEPT ![t] = IF hosts[h] = NoCircuit THEN 0 ELSE clock]
    /\ UNCHANGED <<hosts, clock, probe, succRun, lateResults, crawlVars, auxVars>>

\* IsAllowed, lines 62-74: the write-locked double check, return true
IsAllowedCreate(t, h) ==
    /\ tpc[t] = "create"
    /\ hosts' = GetOrCreate(hosts, h)
    /\ tpc' = [tpc EXCEPT ![t] = "idle"]
    /\ UNCHANGED <<clock, iaNow, probe, succRun, lateResults, crawlVars, auxVars>>

\* IsAllowed, lines 79-99: the write-locked switch on circuit.state
IsAllowedLocked(t, h, ret) ==
    /\ tpc[t] = "switch"
    /\ LET r == IsAllowedSwitch(hosts[h], iaNow[t])
       IN  /\ hosts' = [hosts EXCEPT ![h] = r[1]]
           /\ ret = r[2]
           /\ probe' = IF r[2] /\ r[1].state = circuitHalfOpen
                       THEN [probe EXCEPT ![h] = @ \cup {t}] ELSE probe
           /\ succRun' = IF hosts[h].state = circuitOpen /\ r[1].state = circuitHalfOpen
                         THEN [succRun EXCEPT ![h] = 0] ELSE succRun
    /\ tpc' = [tpc EXCEPT ![t] = "idle"]
    /\ iaNow' = [iaNow EXCEPT ![t] = 0]
    /\ UNCHANGED <<clock, lateResults, crawlVars, auxVars>>

RecordSuccess(t, h) ==
    /\ tpc[t] = "idle"
    /\ hosts' = [hosts EXCEPT ![h] = RecordSuccessSwitch(GetOrCreate(hosts, h)[h])]
    /\ probe' = [probe EXCEPT ![h] = @ \ {t}]
    /\ succRun' = [succRun EXCEPT ![h] = RunAfterSuccess(@)]
    /\ lateResults' = [lateResults EXCEPT ![h] = @ \/ StateOf(hosts[h]) = circuitOpen]
    /\ UNCHANGED <<clock, tpc, iaNow, crawlVars, auxVars>>

RecordFailure(t, h) ==
    /\ tpc[t] = "idle"
    /\ hosts' = [hosts EXCEPT ![h] = RecordFailureSwitch(GetOrCreate(hosts, h)[h], clock)]
    /\ probe' = [probe EXCEPT ![h] = @ \ {t}]
    /\ succRun' = [succRun EXCEPT ![h] = -1]
    /\ lateResults' = [lateResults EXCEPT ![h] = @ \/ StateOf(hosts[h]) = circuitOpen]
    /\ UNCHANGED <<clock, tpc, iaNow, crawlVars, auxVars>>

\* returns StateOf(hosts[h]) and changes nothing
GetState(t, h) ==
    /\ tpc[t] = "idle"
    /\ UNCHANGED <<hosts, clock, tpc, iaNow, probe, succRun, lateResults, crawlVars, auxVars>>

Reset(t, h) ==
    /\ tpc[t] = "idle"
    /\ hosts' = [hosts EXCEPT ![h] = IF @ = NoCircuit THEN @ ELSE ResetCircuit(@)]
    /\ UNCHANGED <<clock, tpc, iaNow, probe, succRun, lateResults, crawlVars, auxVars>>

\* time passes
Tick ==
    /\ clock < MaxClock
    /\ clock' = clock + 1
    /\ fetched' = [u \in URLs |-> {t \in fetched[u] : clock' - t < CacheExpiration}]
    /\ UNCHANGED <<hosts, cbVars, auxVars, queue, store, wpc, wurl, retries, perr, wake,
                   scrapedAt, attempts, gates, due, results>>

\* NewCircuitBreaker, NewMemoryQueue, an empty scraped_pages table, workers at
\* the top of their loop, cfg.Crawler.RespectRobots as configured
NewCrawlerWith(respect) ==
    /\ hosts = [h \in Hosts |-> NoCircuit]
    /\ clock = 0
    /\ tpc = [t \in Threads |-> "idle"]
    /\ iaNow = [t \in Threads |-> 0]
    /\ probe = [h \in Hosts |-> {}]
    /\ succRun = [h \in Hosts |-> -1]
    /\ lateResults = [h \in Hosts |-> FALSE]
    /\ queue = <<>>
    /\ store = [u \in URLs |-> NoRow]
    /\ wpc = [w \in Workers |-> "idle"]
    /\ wurl = [w \in Workers |-> ""]
    /\ retries = [w \in Workers |-> 0]
    /\ perr = [w \in Workers |-> "nil"]
    /\ wake = [w \in Workers |-> 0]
    /\ scrapedAt = [w \in Workers |-> 0]
    /\ attempts = [w \in Workers |-> 0]
    /\ gates = [w \in Workers |-> <<>>]
    /\ fetched = [u \in URLs |-> {}]
    /\ due = [w \in Workers |-> "free"]
    /\ results = [w \in Workers |-> <<>>]
    /\ stopChan = FALSE
    /\ stopPc = "none"
    /\ enq = <<>>
    /\ deq = <<>>
    /\ spc = [p \in Fetchers |-> "start"]
    /\ sAt = [p \in Fetchers |-> 0]
    /\ limiters = [h \in Hosts |-> 0]
    /\ lastUsed = [h \in Hosts |-> NoStamp]
    /\ buckets = [i \in 1..MaxLimiters |-> [tokens |-> 0, last |-> 0]]
    /\ made = 0
    /\ lcall = [t \in LimThreads |-> IdleCall]
    /\ admits = [h \in Hosts |-> <<>>]
    /\ lhist = [h \in Hosts |-> [setRate |-> FALSE, evicted |-> FALSE]]
    /\ rcache = [h \in Hosts |-> NoEntry]
    /\ rcall = [t \in RobThreads |-> IdleRobots]
    /\ metrics = [queuedURLs |-> 0, robotsDisallowed |-> 0, scrapedPages |-> 0, scrapingErrors |-> 0]
    /\ proxies = [i \in PoolIndex |-> [Healthy |-> TRUE, Failures |-> 0, Successes |-> 0]]
    /\ pcurrent = 0
    /\ pret = [kind |-> "none", index |-> 0]
    /\ enqRet = "none"
    /\ respectRobots = respect
    /\ lateTakes = [w \in Workers |-> 0]

\* the crawler under the default configuration
Init == NewCrawlerWith(RespectRobots)

NextCB ==
    \/ \E t \in Threads, h \in Hosts : IsAllowedLookup(t, h)
    \/ \E t \in Threads, h \in Hosts : IsAllowedCreate(t, h)
    \/ \E t \in Threads, h \in Hosts, ret \in BOOLEAN : IsAllowedLocked(t, h, ret)
    \/ \E t \in Threads, h \in Hosts : RecordSuccess(t, h)
    \/ \E t \in Threads, h \in Hosts : RecordFailure(t, h)
    \/ \E t \in Threads, h \in Hosts : GetState(t, h)
    \/ \E t \in Threads, h \in Hosts : Reset(t, h)
    \/ Tick

SpecCB == Init /\ [][NextCB]_vars

---------------------------------------------------------------------------
(* package crawler: worker and processURL; queue/memory_queue.go; the store *)

\* url.Parse on the model's URLs: the error, and parsedURL.Hostname()
ParseURL(u) ==
    IF u = BadURL THEN [err |-> TRUE, host |-> ""]
    ELSE [err |-> FALSE, host |-> "a.test"]

\* 1<<uint(n)
RECURSIVE Pow2(_)
Pow2(n) == IF n <= 0 THEN 1 ELSE 2 * Pow2(n - 1)

\* Backoff that shifts by retries instead of retries - 1
Backoff_ShiftByRetries(r) == RetryDelay * Pow2(r)

\* backoff := c.cfg.RetryDelay * time.Duration(1<<uint(retries-1))
Backoff(r) == RetryDelay * Pow2(r - 1)

\* the worker's test for permanent errors: strings.Contains(processErr.Error(), ...)
IsPermanent(err) == err \in {"robots.txt disallowed", "invalid URL"}

\* RetryAgain with the loop bound off by one
RetryAgain_OneMore(err, r) == err # "nil" /\ ~IsPermanent(err) /\ r <= MaxRetries

\* whether the retry loop runs processURL again after an attempt that returned
\* err with the counter at r: no break, then retries++ and retries <= MaxRetries
RetryAgain(err, r) == err # "nil" /\ ~IsPermanent(err) /\ r + 1 <= MaxRetries

\* DedupHit with the comparison turned round
DedupHit_Flipped(row, lookupErr, now) ==
    ~lookupErr /\ row # NoRow /\ now - row >= CacheExpiration

\* err == nil && time.Since(lastScrape) < c.cfg.CacheExpiration, where
\* GetLastScrapeTime fails with sql.ErrNoRows when the url has no row
DedupHit(row, lookupErr, now) ==
    ~lookupErr /\ row # NoRow /\ now - row < CacheExpiration

\* CircuitBreaker.IsAllowed as one call: <<hosts, allowed>>
IsAllowedCall(hs, h, now) ==
    IF hs[h] = NoCircuit THEN <<GetOrCreate(hs, h), TRUE>>
    ELSE LET r == IsAllowedSwitch(hs[h], now)
         IN  <<[hs EXCEPT ![h] = r[1]], r[2]>>

\* CircuitBreaker.RecordSuccess and RecordFailure as whole calls
RecordSuccessCall(hs, h) == [hs EXCEPT ![h] = RecordSuccessSwitch(GetOrCreate(hs, h)[h])]
RecordFailureCall(hs, h, now) == [hs EXCEPT ![h] = RecordFailureSwitch(GetOrCreate(hs, h)[h], now)]

HostOf(u) == ParseURL(u).host

\* what the dedup lookup owes to the earlier fetches of u that returned success
Owed(u, lookupErr) ==
    IF \E t \in fetched[u] : /\ clock - t < CacheExpiration
                             /\ ~lookupErr /\ store[u] # NoRow /\ store[u] >= t
    THEN "recentSaved"
    ELSE IF \E t \in fetched[u] : clock - t < CacheExpiration
    THEN "recent" ELSE "free"

\* processURL returns err to the retry loop of worker (lines 149-159, 140-146)
Return(w, err) ==
    /\ perr' = [perr EXCEPT ![w] = err]
    /\ results' = [results EXCEPT ![w] = Append(@, err)]
    /\ retries' = [retries EXCEPT ![w] = IF err = "nil" \/ IsPermanent(err) THEN @ ELSE @ + 1]
    /\ wake' = [wake EXCEPT ![w] = IF RetryAgain(err, retries[w])
                                   THEN clock + Backoff(retries[w] + 1) ELSE @]
    /\ wpc' = [wpc EXCEPT ![w] = IF RetryAgain(err, retries[w]) THEN "backoff" ELSE "finish"]

\* Crawler.EnqueueURL that counts the url although Enqueue failed
EnqueueURLOver_CountsFailed(u, enqErr) ==
    /\ enqErr \/ Len(queue) < MaxQueue
    /\ metrics.queuedURLs < MaxEnq
    /\ queue' = IF enqErr THEN queue ELSE Append(queue, u)
    /\ metrics' = [metrics EXCEPT !.queuedURLs = @ + 1]
    /\ enqRet' = IF enqErr THEN "failed to enqueue URL" ELSE "nil"
    /\ UNCHANGED <<hosts, clock, cbVars, auxNoEnqueue, store, wpc, wurl, retries, perr, wake,
                   scrapedAt, attempts, gates, fetched, due, results>>

\* Crawler.EnqueueURL over a Queue whose Enqueue returns an error when enqErr
\* (RedisQueue.Enqueue returns the error of LPush): the error is wrapped and
\* returned; otherwise c.metrics.IncrementQueuedURLs(), return nil
EnqueueURLOver(u, enqErr) ==
    /\ IF enqErr
       THEN /\ enqRet' = "failed to enqueue URL"
            /\ UNCHANGED <<queue, metrics>>
       ELSE /\ Len(queue) < MaxQueue
            /\ metrics.queuedURLs < MaxEnq
            /\ queue' = Append(queue, u)
            /\ metrics' = [metrics EXCEPT !.queuedURLs = @ + 1]
            /\ enqRet' = "nil"
    /\ UNCHANGED <<hosts, clock, cbVars, auxNoEnqueue, store, wpc, wurl, retries, perr, wake,
                   scrapedAt, attempts, gates, fetched, due, results>>

\* Crawler.EnqueueURL -> MemoryQueue.Enqueue, which cannot fail
EnqueueURL(u) == EnqueueURLOver(u, FALSE)

\* MemDequeue that hands out the head without removing it
MemDequeue_KeepsHead(q) ==
    IF Len(q) = 0
    THEN [url |-> "", err |-> "nil", queue |-> q]
    ELSE [url |-> Head(q), err |-> "nil", queue |-> q]

\* MemoryQueue.Dequeue: the url and error it returns, and the queue it leaves
MemDequeue(q) ==
    IF Len(q) = 0
    THEN [url |-> "", err |-> "nil", queue |-> q]
    ELSE [url |-> Head(q), err |-> "nil", queue |-> Tail(q)]

\* DequeueEmpty without the test urlToScrape == "": the empty string goes to processURL
DequeueEmpty_NoEmptyCheck(w) ==
    /\ wpc[w] = "idle"
    /\ ~stopChan
    /\ LET d == MemDequeue(queue)
       IN  /\ d.err = "nil" /\ d.url = ""
           /\ queue' = d.queue
    /\ wpc' = [wpc EXCEPT ![w] = "call"]
    /\ UNCHANGED <<hosts, clock, cbVars, auxVars, store, wurl, retries, perr, wake,
                   scrapedAt, attempts, gates, fetched, due, results>>

\* worker lines 102-129 when Dequeue returns "" and no error: the stop channel
\* is open, so select takes the default case; time.Sleep(1 * time.Second), continue
DequeueEmpty(w) ==
    /\ wpc[w] = "idle"
    /\ ~stopChan
    /\ LET d == MemDequeue(queue)
       IN  /\ d.err = "nil" /\ d.url = ""
           /\ queue' = d.queue
    /\ wpc' = [wpc EXCEPT ![w] = "sleep"]
    /\ wake' = [wake EXCEPT ![w] = clock + PollSleep]
    /\ UNCHANGED <<hosts, clock, cbVars, auxVars, store, wurl, retries, perr,
                   scrapedAt, attempts, gates, fetched, due, results>>

\* DequeueError that polls again at once
DequeueError_NoSleep(w) ==
    /\ wpc[w] = "idle"
    /\ ~stopChan
    /\ wpc' = [wpc EXCEPT ![w] = "sleep"]
    /\ wake' = [wake EXCEPT ![w] = clock]
    /\ UNCHANGED <<hosts, clock, cbVars, auxVars, queue, store, wurl, retries, perr,
                   scrapedAt, attempts, gates, fetched, due, results>>

\* worker lines 113-123 when Dequeue returns an error (RedisQueue.Dequeue
\* returns the errors of BRPop other than redis.Nil and the context errors):
\* time.Sleep(500 * time.Millisecond), continue
DequeueError(w) ==
    /\ wpc[w] = "idle"
    /\ ~stopChan
    /\ wpc' = [wpc EXCEPT ![w] = "sleep"]
    /\ wake' = [wake EXCEPT ![w] = clock + ErrSleep]
    /\ UNCHANGED <<hosts, clock, cbVars, auxVars, queue, store, wurl, retries, perr,
                   scrapedAt, attempts, gates, fetched, due, results>>

\* SleepDone that ends the sleep only once the stop channel is closed
SleepDone_WaitsForStop(w) ==
    /\ wpc[w] = "sleep"
    /\ stopChan
    /\ clock >= wake[w]
    /\ wpc' = [wpc EXCEPT ![w] = "idle"]
    /\ wake' = [wake EXCEPT ![w] = 0]
    /\ UNCHANGED <<hosts, clock, cbVars, auxVars, queue, store, wurl, retries, perr,
                   scrapedAt, attempts, gates, fetched, due, results>>

\* worker lines 121 and 127: the sleep after a failed or empty poll has ended
SleepDone(w) ==
    /\ wpc[w] = "sleep"
    /\ clock >= wake[w]
    /\ wpc' = [wpc EXCEPT ![w] = "idle"]
    /\ wake' = [wake EXCEPT ![w] = 0]
    /\ UNCHANGED <<hosts, clock, cbVars, auxVars, queue, store, wurl, retries, perr,
                   scrapedAt, attempts, gates, fetched, due, results>>

\* worker lines 111-140: Dequeue returns the head; the retry loop starts
Dequeue(w) ==
    /\ wpc[w] = "idle"
    /\ ~stopChan
    /\ LET d == MemDequeue(queue)
       IN  /\ d.err = "nil" /\ d.url # ""
           /\ queue' = d.queue
           /\ wurl' = [wurl EXCEPT ![w] = d.url]
    /\ retries' = [retries EXCEPT ![w] = 0]
    /\ attempts' = [attempts EXCEPT ![w] = 0]
    /\ perr' = [perr EXCEPT ![w] = "nil"]
    /\ results' = [results EXCEPT ![w] = <<>>]
    /\ wpc' = [wpc EXCEPT ![w] = IF 0 <= MaxRetries THEN "call" ELSE "finish"]
    /\ UNCHANGED <<hosts, clock, cbVars, auxVars, store, wake, scrapedAt, gates, fetched, due>>

\* worker lines 141-146: the backoff sleep before a retry has ended
BackoffDone(w) ==
    /\ wpc[w] = "backoff"
    /\ clock >= wake[w]
    /\ wpc' = [wpc EXCEPT ![w] = "call"]
    /\ wake' = [wake EXCEPT ![w] = 0]
    /\ UNCHANGED <<hosts, clock, cbVars, auxVars, queue, store, wurl, retries, perr,
                   scrapedAt, attempts, gates, fetched, due, results>>

\* ParseAndDedup whose dedup hit reports a success to the circuit breaker
ParseAndDedup_HitRecords(w, lookupErr) ==
    /\ wpc[w] = "call"
    /\ attempts' = [attempts EXCEPT ![w] = @ + 1]
    /\ LET u == wurl[w]
       IN  IF ParseURL(u).err
           THEN /\ gates' = [gates EXCEPT ![w] = <<<<"parse", FALSE>>>>]
                /\ due' = [due EXCEPT ![w] = "free"]
                /\ Return(w, "invalid URL")
                /\ UNCHANGED hosts
           ELSE IF DedupHit(store[u], lookupErr, clock)
           THEN /\ gates' = [gates EXCEPT ![w] = <<<<"parse", TRUE>>, <<"dedup", FALSE>>>>]
                /\ due' = [due EXCEPT ![w] = Owed(u, lookupErr)]
                /\ hosts' = RecordSuccessCall(hosts, HostOf(u))
                /\ Return(w, "nil")
           ELSE /\ gates' = [gates EXCEPT ![w] = <<<<"parse", TRUE>>, <<"dedup", TRUE>>>>]
                /\ due' = [due EXCEPT ![w] = Owed(u, lookupErr)]
                /\ wpc' = [wpc EXCEPT ![w] = "circuit"]
                /\ UNCHANGED <<perr, retries, wake, results, hosts>>
    /\ UNCHANGED <<clock, cbVars, auxVars, queue, store, wurl, scrapedAt, fetched>>

\* processURL lines 174-185: url.Parse, then the dedup lookup
ParseAndDedup(w, lookupErr) ==
    /\ wpc[w] = "call"
    /\ attempts' = [attempts EXCEPT ![w] = @ + 1]
    /\ LET u == wurl[w]
       IN  IF ParseURL(u).err
           THEN /\ gates' = [gates EXCEPT ![w] = <<<<"parse", FALSE>>>>]
                /\ due' = [due EXCEPT ![w] = "free"]
                /\ Return(w, "invalid URL")
           ELSE IF DedupHit(store[u], lookupErr, clock)
           THEN /\ gates' = [gates EXCEPT ![w] = <<<<"parse", TRUE>>, <<"dedup", FALSE>>>>]
                /\ due' = [due EXCEPT ![w] = Owed(u, lookupErr)]
                /\ Return(w, "nil")
           ELSE /\ gates' = [gates EXCEPT ![w] = <<<<"parse", TRUE>>, <<"dedup", TRUE>>>>]
                /\ due' = [due EXCEPT ![w] = Owed(u, lookupErr)]
                /\ wpc' = [wpc EXCEPT ![w] = "circuit"]
                /\ UNCHANGED <<perr, retries, wake, results>>
    /\ UNCHANGED <<hosts, clock, cbVars, auxVars, queue, store, wurl, scrapedAt, fetched>>

\* processURL lines 187-191: c.circuitBreaker.IsAllowed(host)
CircuitGate(w) ==
    /\ wpc[w] = "circuit"
    /\ LET r == IsAllowedCall(hosts, HostOf(wurl[w]), clock)
       IN  /\ hosts' = r[1]
           /\ gates' = [gates EXCEPT ![w] = Append(@, <<"circuit", r[2]>>)]
           /\ IF r[2]
              THEN /\ wpc' = [wpc EXCEPT ![w] = IF respectRobots THEN "robots" ELSE "wait"]
                   /\ UNCHANGED <<perr, retries, wake, results>>
              ELSE Return(w, "circuit breaker open")
    /\ UNCHANGED <<clock, cbVars, auxVars, queue, store, wurl, scrapedAt, attempts, fetched, due>>

\* RobotsGate that refuses the url when the robots check itself failed
RobotsGate_ErrorRefuses(w, answer) ==
    /\ wpc[w] = "robots"
    /\ gates' = [gates EXCEPT ![w] = Append(@, <<"robots", answer = "allowed">>)]
    /\ IF answer # "allowed"
       THEN /\ metrics' = [metrics EXCEPT !.robotsDisallowed = @ + 1]
            /\ Return(w, "robots.txt disallowed")
       ELSE /\ wpc' = [wpc EXCEPT ![w] = "wait"]
            /\ UNCHANGED <<perr, retries, wake, results, metrics>>
    /\ UNCHANGED <<hosts, clock, cbVars, auxNoMetrics, queue, store, wurl, scrapedAt, attempts, fetched, due>>

\* processURL lines 193-204: c.robots.IsAllowed(urlStr) answers allowed,
\* disallowed or an error (logged, the call goes on)
RobotsGate(w, answer) ==
    /\ wpc[w] = "robots"
    /\ gates' = [gates EXCEPT ![w] = Append(@, <<"robots", answer # "disallowed">>)]
    /\ IF answer = "disallowed"
       THEN /\ metrics' = [metrics EXCEPT !.robotsDisallowed = @ + 1]
            /\ Return(w, "robots.txt disallowed")
       ELSE /\ wpc' = [wpc EXCEPT ![w] = "wait"]
            /\ UNCHANGED <<perr, retries, wake, results, metrics>>
    /\ UNCHANGED <<hosts, clock, cbVars, auxNoMetrics, queue, store, wurl, scrapedAt, attempts, fetched, due>>

\* WaitGate that goes on to the GET although Wait returned an error
WaitGate_IgnoresError(w, waitErr) ==
    /\ wpc[w] = "wait"
    /\ gates' = [gates EXCEPT ![w] = Append(@, <<"wait", ~waitErr>>)]
    /\ wpc' = [wpc EXCEPT ![w] = "http"]
    /\ UNCHANGED <<perr, retries, wake, results>>
    /\ UNCHANGED <<hosts, clock, cbVars, auxVars, queue, store, wurl, scrapedAt, attempts, fetched, due>>

\* processURL lines 206-212: c.rateLimiter.Wait(limiterCtx, host)
WaitGate(w, waitErr) ==
    /\ wpc[w] = "wait"
    /\ gates' = [gates EXCEPT ![w] = Append(@, <<"wait", ~waitErr>>)]
    /\ IF waitErr
       THEN Return(w, "rate limiting wait failed")
       ELSE /\ wpc' = [wpc EXCEPT ![w] = "http"]
            /\ UNCHANGED <<perr, retries, wake, results>>
    /\ UNCHANGED <<hosts, clock, cbVars, auxVars, queue, store, wurl, scrapedAt, attempts, fetched, due>>

\* processURL lines 214-223: the GET is sent
HttpGet(w) ==
    /\ wpc[w] = "http"
    /\ gates' = [gates EXCEPT ![w] = Append(@, <<"http", TRUE>>)]
    /\ wpc' = [wpc EXCEPT ![w] = "response"]
    /\ UNCHANGED <<hosts, clock, cbVars, auxVars, queue, store, wurl, retries, perr, wake,
                   scrapedAt, attempts, fetched, due, results>>

\* HttpFailed that fails the call without telling the circuit breaker
HttpFailed_NoRecord(w, err) ==
    /\ wpc[w] = "response"
    /\ Return(w, err)
    /\ UNCHANGED <<hosts, clock, cbVars, auxVars, queue, store, wurl, scrapedAt, attempts, gates, fetched, due>>

\* processURL lines 227-252: a network error, a non-2xx status or a body read
\* error records a circuit failure and fails the call
HttpFailed(w, err) ==
    /\ wpc[w] = "response"
    /\ hosts' = RecordFailureCall(hosts, HostOf(wurl[w]), clock)
    /\ Return(w, err)
    /\ UNCHANGED <<clock, cbVars, auxVars, queue, store, wurl, scrapedAt, attempts, gates, fetched, due>>

\* processURL lines 239-263: a 2xx response whose body was read; scrapedAt := time.Now()
HttpOk(w) ==
    /\ wpc[w] = "response"
    /\ scrapedAt' = [scrapedAt EXCEPT ![w] = clock]
    /\ wpc' = [wpc EXCEPT ![w] = "save"]
    /\ UNCHANGED <<hosts, clock, cbVars, auxVars, queue, store, wurl, retries, perr, wake,
                   attempts, gates, fetched, due, results>>

\* SaveScrapedData whose error fails the call
SaveScrapedData_Fatal(w, saveErr) ==
    /\ wpc[w] = "save"
    /\ IF saveErr
       THEN /\ Return(w, "failed to save")
            /\ UNCHANGED store
       ELSE /\ store' = [store EXCEPT ![wurl[w]] = scrapedAt[w]]
            /\ wpc' = [wpc EXCEPT ![w] = "saved"]
            /\ UNCHANGED <<retries, perr, wake, results>>
    /\ UNCHANGED <<hosts, clock, cbVars, auxVars, queue, wurl,
                   scrapedAt, attempts, gates, fetched, due>>

\* processURL lines 264-267: SaveScrapedData upserts the row, or fails and is only logged
SaveScrapedData(w, saveErr) ==
    /\ wpc[w] = "save"
    /\ store' = IF saveErr THEN store ELSE [store EXCEPT ![wurl[w]] = scrapedAt[w]]
    /\ wpc' = [wpc EXCEPT ![w] = "saved"]
    /\ UNCHANGED <<hosts, clock, cbVars, auxVars, queue, wurl, retries, perr, wake,
                   scrapedAt, attempts, gates, fetched, due, results>>

\* processURL lines 269-281: RecordSuccess(host), IncrementScrapedPages(), return nil
FetchDone(w) ==
    /\ wpc[w] = "saved"
    /\ hosts' = RecordSuccessCall(hosts, HostOf(wurl[w]))
    /\ metrics' = [metrics EXCEPT !.scrapedPages = @ + 1]
    /\ fetched' = [fetched EXCEPT ![wurl[w]] =
                        @ \cup {t \in {scrapedAt[w]} : clock - t < CacheExpiration}]
    /\ scrapedAt' = [scrapedAt EXCEPT ![w] = 0]
    /\ Return(w, "nil")
    /\ UNCHANGED <<clock, cbVars, auxNoMetrics, queue, store, wurl, attempts, gates, due>>

\* Finish that counts an error for every url, whatever the last call returned
Finish_CountsAll(w) ==
    /\ wpc[w] = "finish"
    /\ metrics' = [metrics EXCEPT !.scrapingErrors = @ + 1]
    /\ wpc' = [wpc EXCEPT ![w] = "idle"]
    /\ wurl' = [wurl EXCEPT ![w] = ""]
    /\ retries' = [retries EXCEPT ![w] = 0]
    /\ perr' = [perr EXCEPT ![w] = "nil"]
    /\ wake' = [wake EXCEPT ![w] = 0]
    /\ scrapedAt' = [scrapedAt EXCEPT ![w] = 0]
    /\ attempts' = [attempts EXCEPT ![w] = 0]
    /\ gates' = [gates EXCEPT ![w] = <<>>]
    /\ due' = [due EXCEPT ![w] = "free"]
    /\ results' = [results EXCEPT ![w] = <<>>]
    /\ UNCHANGED <<hosts, clock, cbVars, auxNoMetrics, queue, store, fetched>>

\* worker lines 161-168: the retry loop is over; IncrementScrapingErrors()
\* unless the last call succeeded, next iteration
Finish(w) ==
    /\ wpc[w] = "finish"
    /\ metrics' = [metrics EXCEPT !.scrapingErrors =
                        IF results[w] # <<>> /\ perr[w] = "nil" THEN @ ELSE @ + 1]
    /\ wpc' = [wpc EXCEPT ![w] = "idle"]
    /\ wurl' = [wurl EXCEPT ![w] = ""]
    /\ retries' = [retries EXCEPT ![w] = 0]
    /\ perr' = [perr EXCEPT ![w] = "nil"]
    /\ wake' = [wake EXCEPT ![w] = 0]
    /\ scrapedAt' = [scrapedAt EXCEPT ![w] = 0]
    /\ attempts' = [attempts EXCEPT ![w] = 0]
    /\ gates' = [gates EXCEPT ![w] = <<>>]
    /\ due' = [due EXCEPT ![w] = "free"]
    /\ results' = [results EXCEPT ![w] = <<>>]
    /\ UNCHANGED <<hosts, clock, cbVars, auxNoMetrics, queue, store, fetched>>

HttpErrors == {"http request failed", "non-2xx status code", "failed to read response body"}

NextCrawler ==
    \/ \E u \in URLs : EnqueueURL(u)
    \/ \E w \in Workers : DequeueEmpty(w)
    \/ \E w \in Workers : SleepDone(w)
    \/ \E w \in Workers : Dequeue(w)
    \/ \E w \in Workers : BackoffDone(w)
    \/ \E w \in Workers, lookupErr \in BOOLEAN : ParseAndDedup(w, lookupErr)
    \/ \E w \in Workers : CircuitGate(w)
    \/ \E w \in Workers, answer \in {"allowed", "disallowed", "error"} : RobotsGate(w, answer)
    \/ \E w \in Workers, waitErr \in BOOLEAN : WaitGate(w, waitErr)
    \/ \E w \in Workers : HttpGet(w)
    \/ \E w \in Workers, err \in HttpErrors : HttpFailed(w, err)
    \/ \E w \in Workers : HttpOk(w)
    \/ \E w \in Workers, saveErr \in BOOLEAN : SaveScrapedData(w, saveErr)
    \/ \E w \in Workers : FetchDone(w)
    \/ \E w \in Workers : Finish(w)
    \/ Tick

SpecCrawler == Init /\ [][NextCrawler]_vars

---------------------------------------------------------------------------
(* Claims about the circuit breaker, checked under SpecCB *)

Min(a, b) == IF a < b THEN a ELSE b

LegalTransition(s1, s2) ==
    <<s1, s2>> \in {<<circuitClosed, circuitOpen>>, <<circuitOpen, circuitHalfOpen>>,
                    <<circuitHalfOpen, circuitClosed>>, <<circuitHalfOpen, circuitOpen>>}

\* C1 as stated: every change of a host's circuit state, whatever call makes
\* it (Reset included), is Closed->Open, Open->HalfOpen, HalfOpen->Closed or
\* HalfOpen->Open.
C1_OnlyLegalTransitions ==
    [][\A h \in Hosts :
          StateOf(hosts[h]) # StateOf(hosts'[h])
              => LegalTransition(StateOf(hosts[h]), StateOf(hosts'[h]))]_vars

\* C1 amended: every change of a host's circuit state made by IsAllowed,
\* RecordSuccess, RecordFailure or GetState is one of the four transitions;
\* the only other change is Reset moving the circuit to Closed.
C1_LegalTransitionsOrReset ==
    [][\A h \in Hosts :
          StateOf(hosts[h]) # StateOf(hosts'[h])
              => \/ LegalTransition(StateOf(hosts[h]), StateOf(hosts'[h]))
                 \/ /\ StateOf(hosts'[h]) = circuitClosed
                    /\ \E t \in Threads : Reset(t, h)]_vars

\* a circuit that has been open and that Reset has closed and emptied
C1_Witness ==
    \E h \in Hosts :
        /\ hosts[h] # NoCircuit
        /\ hosts[h].state = circuitClosed
        /\ hosts[h].openedAt # ZeroTime
        /\ hosts[h].successes = <<>>

\* C2 as stated: no IsAllowed call returns true at a moment when the host's
\* circuit is Open and at most resetTimeout has passed since opened_at, in any
\* interleaving, the first creation of the host's entry included.
C2_OpenRejects ==
    [][\A t \in Threads, h \in Hosts :
          (IsAllowedCreate(t, h) \/ IsAllowedLocked(t, h, TRUE))
              => ~(/\ hosts'[h].state = circuitOpen
                   /\ clock' - hosts'[h].openedAt <= resetTimeout)]_vars

C4_HalfOpenRecovery ==
    /\ [][\A t \in Threads, h \in Hosts, ret \in BOOLEAN :
            (/\ IsAllowedLocked(t, h, ret)
             /\ hosts[h].state = circuitOpen
             /\ iaNow[t] - hosts[h].openedAt > resetTimeout)
                => /\ ret = TRUE
                   /\ hosts'[h].state = circuitHalfOpen
                   /\ hosts'[h].halfOpenSuccess = 0]_vars
    /\ [](\A h \in Hosts :
            succRun[h] = succRequiredToClose
                => /\ hosts[h].state = circuitClosed
                   /\ hosts[h].failures = <<>>)

\* the probe was admitted and the required successes have closed the circuit
C4_Witness ==
    \E h \in Hosts :
        /\ succRun[h] = succRequiredToClose
        /\ hosts[h].state = circuitClosed
        /\ hosts[h].openedAt # ZeroTime

C6_ProbesBounded ==
    \A h \in Hosts :
        StateOf(hosts[h]) = circuitHalfOpen
            => Cardinality(probe[h]) <= succRequiredToClose

---------------------------------------------------------------------------
(* Claims about processURL and the retry loop, checked under SpecCrawler *)

\* the gates of processURL in the order of its source
GateOrder ==
    IF respectRobots
    THEN <<"parse", "dedup", "circuit", "robots", "wait", "http">>
    ELSE <<"parse", "dedup", "circuit", "wait", "http">>

\* C7: the gates a processURL call has run are an initial part of parse,
\* dedup lookup, circuit IsAllowed, robots check, rate-limiter Wait, HTTP GET,
\* in that order, and every gate but the last one run let the call go on: the
\* GET is sent only after the url parsed, the lookup found no fresh row,
\* IsAllowed returned true, robots did not disallow and Wait returned no error,
\* and a gate that stops the call is the last one run.
C7_GatesInOrder ==
    \A w \in Workers :
        /\ Len(gates[w]) <= Len(GateOrder)
        /\ \A i \in 1..Len(gates[w]) :
              /\ gates[w][i][1] = GateOrder[i]
              /\ i < Len(gates[w]) => gates[w][i][2]
        /\ wpc[w] \in {"response", "save", "saved"} => Len(gates[w]) = Len(GateOrder)

\* a call has passed every gate and sent the GET
C7_Witness ==
    \E w \in Workers :
        /\ wpc[w] = "response"
        /\ Len(gates[w]) = Len(GateOrder)
        /\ gates[w][Len(GateOrder)][1] = "http"

SentGet(w) == \E i \in 1..Len(gates[w]) : gates[w][i][1] = "http"

C9_PermanentNotRetried ==
    \A w \in Workers :
        wpc[w] = "backoff"
            => perr[w] \notin {"invalid URL", "robots.txt disallowed", "circuit breaker open"}

\* C10: for the url a worker holds, processURL is called at most
\* MaxRetries + 1 times, at least once by the time the retry loop is over, and
\* never again after a call returned success.
C10_AttemptsBounded ==
    \A w \in Workers :
        /\ attempts[w] <= MaxRetries + 1
        /\ wpc[w] = "finish" => attempts[w] >= 1
        /\ wpc[w] = "backoff" => perr[w] # "nil" /\ attempts[w] <= MaxRetries
        /\ (wpc[w] = "finish" /\ perr[w] = "nil") => attempts[w] = retries[w] + 1

\* the retry loop ended after MaxRetries + 1 failed attempts
C10_Witness ==
    \E w \in Workers :
        /\ wpc[w] = "finish"
        /\ attempts[w] = MaxRetries + 1
        /\ perr[w] # "nil"

\* the first n results of the retry loop are all non-2xx answers of the server
AllNon2xx(r, n) == \A i \in 1..n : r[i] = "non-2xx status code"

\* C11 as stated: when the server answered non-2xx on the first k attempts for
\* the url a worker holds (1 <= k <= MaxRetries), the retry loop does not end
\* there, attempt k + 1 is not turned away before it reaches the server, and
\* when it returns success the loop ends with k + 1 attempts made.
C11_TransientRetriedToServer ==
    \A w \in Workers :
        LET r == results[w]
            n == Len(r)
        IN  /\ (n >= 1 /\ n <= MaxRetries /\ AllNon2xx(r, n)) => wpc[w] # "finish"
            /\ (n >= 2 /\ n - 1 <= MaxRetries /\ AllNon2xx(r, n - 1))
                  => /\ r[n] # "circuit breaker open"
                     /\ r[n] = "nil" => attempts[w] = n


---------------------------------------------------------------------------
(* SpecStop: the worker loop with Crawler.Stop *)

\* worker lines 103-106: the closed stop channel is ready, the worker returns
\* and its deferred c.wg.Done() runs
WorkerExit(w) ==
    /\ wpc[w] = "idle"
    /\ stopChan
    /\ wpc' = [wpc EXCEPT ![w] = "exited"]
    /\ UNCHANGED <<hosts, clock, cbVars, auxVars, queue, store, wurl, retries, perr,
                   wake, scrapedAt, attempts, gates, fetched, due, results>>

\* Stop lines 89-92: close(c.stopChan), then c.wg.Wait() begins
Stop ==
    /\ stopPc = "none"
    /\ stopChan' = TRUE
    /\ stopPc' = "waiting"
    /\ UNCHANGED <<hosts, clock, cbVars, crawlVars, auxNoStop>>

\* StopReturn that does not wait for the workers
StopReturn_NoJoin ==
    /\ stopPc = "waiting"
    /\ stopPc' = "returned"
    /\ UNCHANGED <<hosts, clock, cbVars, crawlVars, stopChan, auxNoStop>>

\* Stop lines 92-95: c.wg.Wait() returns once every worker has called Done
StopReturn ==
    /\ stopPc = "waiting"
    /\ \A w \in Workers : wpc[w] = "exited"
    /\ stopPc' = "returned"
    /\ UNCHANGED <<hosts, clock, cbVars, crawlVars, stopChan, auxNoStop>>

\* the times at which the time.Sleep of a sleeping worker ends
PendingWakes == {wake[w] : w \in {x \in Workers : wpc[x] \in {"backoff", "sleep"} /\ wake[x] > clock}}

\* after Stop, time goes on past MaxClock for as long as a worker's time.Sleep
\* has not ended: it passes until the next sleep ends
TickPast ==
    /\ stopChan
    /\ clock >= MaxClock
    /\ PendingWakes # {}
    /\ clock' = CHOOSE m \in PendingWakes : \A n \in PendingWakes : m <= n
    /\ fetched' = [u \in URLs |-> {t \in fetched[u] : clock' - t < CacheExpiration}]
    /\ UNCHANGED <<hosts, cbVars, auxVars, queue, store, wpc, wurl, retries, perr, wake,
                   scrapedAt, attempts, gates, due, results>>

\* one step of worker w
WorkerStep(w) ==
    \/ DequeueEmpty(w) \/ SleepDone(w) \/ Dequeue(w) \/ BackoffDone(w)
    \/ \E lookupErr \in BOOLEAN : ParseAndDedup(w, lookupErr)
    \/ CircuitGate(w)
    \/ \E answer \in {"allowed", "disallowed", "error"} : RobotsGate(w, answer)
    \/ \E waitErr \in BOOLEAN : WaitGate(w, waitErr)
    \/ HttpGet(w)
    \/ \E err \in HttpErrors : HttpFailed(w, err)
    \/ HttpOk(w)
    \/ \E saveErr \in BOOLEAN : SaveScrapedData(w, saveErr)
    \/ FetchDone(w)
    \/ Finish(w)
    \/ WorkerExit(w)

\* the urls enqueued while Stop is studied are well-formed ones: a malformed url
\* only shortens the iteration
NextStop ==
    \/ EnqueueURL(GoodURL)
    \/ \E w \in Workers : WorkerStep(w)
    \/ Stop
    \/ StopReturn
    \/ Tick
    \/ TickPast

\* goroutines are scheduled, time passes, and every call a worker waits in
\* (rate-limiter Wait, the GET, the store) comes back: each has a deadline
FairStop ==
    /\ \A w \in Workers : WF_vars(WorkerStep(w))
    /\ WF_vars(Tick \/ TickPast)
    /\ WF_vars(StopReturn)

SpecStop == Init /\ [][NextStop]_vars /\ FairStop

\* C13: once Stop has closed the stop channel and waits, it returns in the
\* end, and it has returned only when every worker has left its loop.
C13_StopReturnsAfterWorkers ==
    /\ (stopPc = "waiting") ~> (stopPc = "returned")
    /\ [](stopPc = "returned" => \A w \in Workers : wpc[w] = "exited")

\* Stop has returned after waiting for a worker that was asleep when the stop
\* channel was closed
C13_Witness ==
    /\ stopPc = "returned"
    /\ \A w \in Workers : wpc[w] = "exited"
    /\ clock > MaxClock


---------------------------------------------------------------------------
(* SpecQueue: goroutines calling MemoryQueue.Enqueue and MemoryQueue.Dequeue *)

\* MemoryQueue.Enqueue: q.queue = append(q.queue, url), under q.mu
MemEnqueue(q, u) == Append(q, u)

\* one Enqueue call, from q.mu.Lock() to the deferred Unlock
QEnqueue(t, u) ==
    /\ Len(enq) < MaxEnq
    /\ queue' = MemEnqueue(queue, u)
    /\ enq' = Append(enq, u)
    /\ UNCHANGED <<hosts, clock, cbVars, workerVars, auxNoQueue, deq>>

\* one Dequeue call, from q.mu.Lock() to the deferred Unlock
QDequeue(t) ==
    /\ LET d == MemDequeue(queue)
       IN  /\ queue' = d.queue
           /\ deq' = IF d.url # "" THEN Append(deq, <<t, d.url>>) ELSE deq
    /\ UNCHANGED <<hosts, clock, cbVars, workerVars, auxNoQueue, enq>>

NextQueue ==
    \/ \E t \in Threads, u \in URLs : QEnqueue(t, u)
    \/ \E t \in Threads : QDequeue(t)

SpecQueue == Init /\ [][NextQueue]_vars

\* the urls Dequeue has returned, in the order of the calls
Delivered == [i \in 1..Len(deq) |-> deq[i][2]]

\* C14: the urls Dequeue has returned so far, in the order returned, followed
\* by the urls still queued, are exactly the urls enqueued, in enqueue order:
\* first in first out, each enqueued url handed to one caller at most, none lost.
C14_FifoExactlyOnce == Delivered \o queue = enq

\* two callers have each received a url and a third url is still queued
C14_Witness ==
    /\ Len(deq) = 2
    /\ deq[1][1] # deq[2][1]
    /\ deq[1][2] # deq[2][2]
    /\ Len(queue) = 1

---------------------------------------------------------------------------
(* The empty poll, checked under SpecCrawler *)

---------------------------------------------------------------------------
(* SpecStore: processURL calls of different workers for the same url, as far
   as they touch the store: the dedup lookup, scrapedAt := time.Now(), the upsert *)

\* SaveScrapedData: INSERT ... ON CONFLICT(url) DO UPDATE SET scraped_at = excluded.scraped_at
Upsert(st, u, at) == [st EXCEPT ![u] = at]

\* processURL lines 180-185 in one worker: the dedup lookup
SDedup(p, lookupErr) ==
    /\ spc[p] = "start"
    /\ spc' = [spc EXCEPT ![p] = IF DedupHit(store[GoodURL], lookupErr, clock)
                                  THEN "start" ELSE "fetch"]
    /\ UNCHANGED <<hosts, clock, cbVars, crawlVars, auxNoStore, sAt>>

\* processURL lines 187-263: the gates let the call pass, the server answers
\* 2xx, the body is read; scrapedAt := time.Now()
SFetched(p) ==
    /\ spc[p] = "fetch"
    /\ sAt' = [sAt EXCEPT ![p] = clock]
    /\ spc' = [spc EXCEPT ![p] = "stamped"]
    /\ UNCHANGED <<hosts, clock, cbVars, crawlVars, auxNoStore>>

\* processURL lines 264-281: SaveScrapedData(ctx, urlStr, scrapedAt, contentHash); return nil
SSave(p, saveErr) ==
    /\ spc[p] = "stamped"
    /\ store' = IF saveErr THEN store ELSE Upsert(store, GoodURL, sAt[p])
    /\ spc' = [spc EXCEPT ![p] = "start"]
    /\ sAt' = [sAt EXCEPT ![p] = 0]
    /\ UNCHANGED <<hosts, clock, cbVars, auxNoStore, queue, wpc, wurl, retries, perr, wake,
                   scrapedAt, attempts, gates, fetched, due, results>>

NextStore ==
    \/ \E p \in Fetchers, lookupErr \in BOOLEAN : SDedup(p, lookupErr)
    \/ \E p \in Fetchers : SFetched(p)
    \/ \E p \in Fetchers, saveErr \in BOOLEAN : SSave(p, saveErr)
    \/ Tick

SpecStore == Init /\ [][NextStore]_vars

\* C16 as stated: no step makes the stored scraped_at of a url smaller.
C16_ScrapedAtMonotonic ==
    [][\A u \in URLs : store[u] # NoRow => store'[u] >= store[u]]_vars


---------------------------------------------------------------------------
(* SpecLimiter: goroutines in HostRateLimiter.Wait and Allow, SetRate, and the
   cleanup routine *)

\* rate.NewLimiter(limit, burst): a full bucket
NewLimiter(now) == [tokens |-> defaultRPS, last |-> now]

\* the tokens a rate.Limiter holds at time now: refilled at the limit, capped at the burst
TokensAt(b, now) == Min(defaultRPS, b.tokens + defaultQPS * (now - b.last))

\* the bucket after one token has been taken at time now
TakeToken(b, now) == [tokens |-> TokensAt(b, now) - 1, last |-> now]

\* getLimiter lines 250-254: the read-locked lookup
GetLimiterLookup(t, h, op) ==
    /\ lcall[t].pc = "idle"
    /\ lcall' = [lcall EXCEPT ![t] =
                    IF limiters[h] # 0
                    THEN [pc |-> "got", op |-> op, host |-> h, held |-> limiters[h]]
                    ELSE [pc |-> "miss", op |-> op, host |-> h, held |-> 0]]
    /\ UNCHANGED <<hosts, clock, cbVars, crawlVars, auxNoLimiter,
                   limiters, lastUsed, buckets, made, admits, lhist>>

\* GetLimiterCreate without the second look at the map under the write lock
GetLimiterCreate_NoDoubleCheck(t) ==
    /\ lcall[t].pc = "miss"
    /\ made < MaxLimiters
    /\ LET h == lcall[t].host
       IN  /\ limiters' = [limiters EXCEPT ![h] = made + 1]
           /\ buckets' = [buckets EXCEPT ![made + 1] = NewLimiter(clock)]
           /\ lastUsed' = [lastUsed EXCEPT ![h] = clock]
           /\ made' = made + 1
           /\ lcall' = [lcall EXCEPT ![t].pc = "got", ![t].held = made + 1]
    /\ UNCHANGED <<hosts, clock, cbVars, crawlVars, auxNoLimiter, admits, lhist>>

\* getLimiter lines 254-266: under the write lock, look again, create the
\* limiter and its lastUsed stamp when the host still has none
GetLimiterCreate(t) ==
    /\ lcall[t].pc = "miss"
    /\ LET h == lcall[t].host
       IN  IF limiters[h] # 0
           THEN /\ lcall' = [lcall EXCEPT ![t].pc = "got", ![t].held = limiters[h]]
                /\ UNCHANGED <<limiters, lastUsed, buckets, made>>
           ELSE /\ made < MaxLimiters
                /\ limiters' = [limiters EXCEPT ![h] = made + 1]
                /\ buckets' = [buckets EXCEPT ![made + 1] = NewLimiter(clock)]
                /\ lastUsed' = [lastUsed EXCEPT ![h] = clock]
                /\ made' = made + 1
                /\ lcall' = [lcall EXCEPT ![t].pc = "got", ![t].held = made + 1]
    /\ UNCHANGED <<hosts, clock, cbVars, crawlVars, auxNoLimiter, admits, lhist>>

\* Wait line 224: h.updateLastUsed(host); limiter.Wait(ctx) begins
WaitUpdateLastUsed(t) ==
    /\ lcall[t].pc = "got"
    /\ lcall[t].op = "wait"
    /\ lastUsed' = [lastUsed EXCEPT ![lcall[t].host] = clock]
    /\ lcall' = [lcall EXCEPT ![t].pc = "waiting"]
    /\ UNCHANGED <<hosts, clock, cbVars, crawlVars, auxNoLimiter,
                   limiters, buckets, made, admits, lhist>>

\* Wait line 225: limiter.Wait(ctx) returns nil: a token was there before ctx
\* was done
LimiterWaitOk(t) ==
    /\ lcall[t].pc = "waiting"
    /\ TokensAt(buckets[lcall[t].held], clock) >= 1
    /\ buckets' = [buckets EXCEPT ![lcall[t].held] = TakeToken(@, clock)]
    /\ admits' = [admits EXCEPT ![lcall[t].host] = Append(@, clock)]
    /\ lcall' = [lcall EXCEPT ![t] = IdleCall]
    /\ UNCHANGED <<hosts, clock, cbVars, crawlVars, auxNoLimiter,
                   limiters, lastUsed, made, lhist>>

\* Wait line 225: limiter.Wait(ctx) returns an error: ctx was cancelled or ran
\* past its deadline, which the caller's context can do at any moment
LimiterWaitErr(t) ==
    /\ lcall[t].pc = "waiting"
    /\ lcall' = [lcall EXCEPT ![t] = IdleCall]
    /\ UNCHANGED <<hosts, clock, cbVars, crawlVars, auxNoLimiter,
                   limiters, lastUsed, buckets, made, admits, lhist>>

\* Allow line 232: limiter.Allow() takes a token when there is one
LimiterAllow(t) ==
    /\ lcall[t].pc = "got"
    /\ lcall[t].op = "allow"
    /\ IF TokensAt(buckets[lcall[t].held], clock) >= 1
       THEN /\ buckets' = [buckets EXCEPT ![lcall[t].held] = TakeToken(@, clock)]
            /\ admits' = [admits EXCEPT ![lcall[t].host] = Append(@, clock)]
            /\ lcall' = [lcall EXCEPT ![t].pc = "allowed"]
       ELSE /\ lcall' = [lcall EXCEPT ![t] = IdleCall]
            /\ UNCHANGED <<buckets, admits>>
    /\ UNCHANGED <<hosts, clock, cbVars, crawlVars, auxNoLimiter,
                   limiters, lastUsed, made, lhist>>

\* Allow lines 233-236: if allowed { h.updateLastUsed(host) }; return allowed
AllowUpdateLastUsed(t) ==
    /\ lcall[t].pc = "allowed"
    /\ lastUsed' = [lastUsed EXCEPT ![lcall[t].host] = clock]
    /\ lcall' = [lcall EXCEPT ![t] = IdleCall]
    /\ UNCHANGED <<hosts, clock, cbVars, crawlVars, auxNoLimiter,
                   limiters, buckets, made, admits, lhist>>

\* SetRate: a new limiter replaces the host's entry
SetRate(h) ==
    /\ made < MaxLimiters
    /\ limiters' = [limiters EXCEPT ![h] = made + 1]
    /\ buckets' = [buckets EXCEPT ![made + 1] = NewLimiter(clock)]
    /\ lastUsed' = [lastUsed EXCEPT ![h] = clock]
    /\ made' = made + 1
    /\ lhist' = [lhist EXCEPT ![h].setRate = TRUE]
    /\ UNCHANGED <<hosts, clock, cbVars, crawlVars, auxNoLimiter, lcall, admits>>

\* the hosts one pass of cleanupRoutine removes: now.Sub(lastUsed) > h.ttl
Expired(now) == {h \in Hosts : lastUsed[h] # NoStamp /\ now - lastUsed[h] > limiterTTL}

\* cleanupRoutine lines 279-289: one pass over lastUsed under the write lock
Sweep ==
    /\ Expired(clock) # {}
    /\ limiters' = [h \in Hosts |-> IF h \in Expired(clock) THEN 0 ELSE limiters[h]]
    /\ lastUsed' = [h \in Hosts |-> IF h \in Expired(clock) THEN NoStamp ELSE lastUsed[h]]
    /\ lhist' = [h \in Hosts |-> IF h \in Expired(clock) /\ limiters[h] # 0
                                 THEN [lhist[h] EXCEPT !.evicted = TRUE] ELSE lhist[h]]
    /\ UNCHANGED <<hosts, clock, cbVars, crawlVars, auxNoLimiter, buckets, made, lcall, admits>>

NextLimiter ==
    \/ \E t \in LimThreads, h \in Hosts, op \in {"wait", "allow"} : GetLimiterLookup(t, h, op)
    \/ \E t \in LimThreads : GetLimiterCreate(t)
    \/ \E t \in LimThreads : WaitUpdateLastUsed(t)
    \/ \E t \in LimThreads : LimiterWaitOk(t)
    \/ \E t \in LimThreads : LimiterWaitErr(t)
    \/ \E t \in LimThreads : LimiterAllow(t)
    \/ \E t \in LimThreads : AllowUpdateLastUsed(t)
    \/ \E h \in Hosts : SetRate(h)
    \/ Sweep
    \/ Tick

SpecLimiter == Init /\ [][NextLimiter]_vars


\* a goroutine that has obtained a limiter from getLimiter and has not returned
Holding(t) == lcall[t].pc \in {"got", "waiting", "allowed"}

\* no SetRate call and no eviction has touched any host's entry
Undisturbed == \A h \in Hosts : ~lhist[h].setRate /\ ~lhist[h].evicted

WaitInProgress(h) ==
    \E t \in LimThreads :
       /\ lcall[t].op = "wait"
       /\ lcall[t].host = h
       /\ lcall[t].pc \in {"got", "waiting"}

\* C18: no step removes the limiter entry of a host for which a Wait call is
\* in progress.
C18_SweepSparesWaiters ==
    [][\A h \in Hosts :
         (WaitInProgress(h) /\ limiters[h] # 0) => limiters'[h] # 0]_vars

\* C37: in every state, the hosts that have a limiter are exactly the hosts
\* that have a last-used stamp.
C37_LimitersMatchLastUsed ==
    \A h \in Hosts : (limiters[h] # 0) <=> (lastUsed[h] # NoStamp)

\* C19: for every host with no SetRate call, any run of consecutive admissions
\* is no longer than burst + rate * (the time the run spans).
C19_AdmissionsWithinRate ==
    \A h \in Hosts :
       ~lhist[h].setRate =>
          \A i, j \in 1..Len(admits[h]) :
             i <= j =>
                j - i + 1 <= defaultRPS + defaultQPS * (admits[h][j] - admits[h][i])


---------------------------------------------------------------------------
(* SpecRobots: goroutines in RobotsCache.IsAllowed *)

\* the status class of a fetch outcome; "0" is the statusCode of a network error
StatusOf(o) ==
    CASE o = "neterr" -> "0"
      [] o \in {"2xx-allow", "2xx-disallow", "2xx-bad"} -> "2xx"
      [] OTHER -> o

\* robotstxt.FromStatusAndString(statusCode, ""): an empty body parses to
\* rules that allow everything, 4xx is allow-all, 5xx is disallow-all, and any
\* other status gives a nil *RobotsData and an error
FromStatusAndString(st) ==
    CASE st = "2xx" -> "allow"
      [] st = "4xx" -> "allow"
      [] st = "5xx" -> "disallow"
      [] OTHER -> "nil"

\* the data getRobotsData stores for a fetch outcome (lines 136-166)
DataOf(o) ==
    CASE o = "2xx-allow" -> "allow"
      [] o = "2xx-disallow" -> "disallow"
      [] OTHER -> FromStatusAndString(StatusOf(o))

\* IsAllowed lines 98-113 on the entry getRobotsData returned without error:
\* what the call returns, "panic" for TestAgent on a nil *RobotsData
Decide(e) ==
    CASE e.status = "5xx" -> "disallowed"
      [] e.status = "4xx" -> "allowed"
      [] e.data = "nil" -> "panic"
      [] e.data = "allow" -> "allowed"
      [] OTHER -> "disallowed"

\* a panic in one goroutine ends the process
Crashed == \E t \in RobThreads : rcall[t].res = "panic"

\* IsAllowed line 79-82: url.Parse fails, (false, err) is returned
RobotsBadURL(t) ==
    /\ ~Crashed
    /\ rcall[t].pc = "idle"
    /\ rcall' = [rcall EXCEPT ![t] = [IdleRobots EXCEPT !.pc = "done", !.res = "error"]]
    /\ UNCHANGED <<hosts, clock, cbVars, crawlVars, auxNoRobots, rcache>>

\* IsAllowed up to getRobotsData lines 119-125: the read-locked lookup; a fresh
\* entry is returned and decided on at once, otherwise the fetch begins
RobotsLookup(t, h) ==
    /\ ~Crashed
    /\ rcall[t].pc = "idle"
    /\ rcall' = [rcall EXCEPT ![t] =
                    IF rcache[h] # NoEntry /\ clock - rcache[h].fetchedAt < robotsTTL
                    THEN [pc |-> "done", host |-> h, used |-> rcache[h], fetched |-> "none",
                          res |-> Decide(rcache[h])]
                    ELSE [pc |-> "fetching", host |-> h, used |-> NoEntry, fetched |-> "none",
                          res |-> "none"]]
    /\ UNCHANGED <<hosts, clock, cbVars, crawlVars, auxNoRobots, rcache>>

\* getRobotsData lines 134-178 and the rest of IsAllowed: the fetch comes
\* back, the entry is stored under the write lock, and the call returns the
\* error of a network failure or decides on the entry
RobotsFetch(t, o) ==
    /\ ~Crashed
    /\ rcall[t].pc = "fetching"
    /\ LET e == [data |-> DataOf(o), fetchedAt |-> clock, status |-> StatusOf(o)]
       IN  /\ rcache' = [rcache EXCEPT ![rcall[t].host] = e]
           /\ rcall' = [rcall EXCEPT ![t].pc = "done", ![t].used = e, ![t].fetched = o,
                                     ![t].res = IF o = "neterr" THEN "error" ELSE Decide(e)]
    /\ UNCHANGED <<hosts, clock, cbVars, crawlVars, auxNoRobots>>

\* the caller takes the result; a panic is not returned from
RobotsReturn(t) ==
    /\ rcall[t].pc = "done"
    /\ rcall[t].res # "panic"
    /\ rcall' = [rcall EXCEPT ![t] = IdleRobots]
    /\ UNCHANGED <<hosts, clock, cbVars, crawlVars, auxNoRobots, rcache>>

NextRobots ==
    \/ \E t \in RobThreads : RobotsBadURL(t)
    \/ \E t \in RobThreads, h \in Hosts : RobotsLookup(t, h)
    \/ \E t \in RobThreads, o \in FetchOutcomes : RobotsFetch(t, o)
    \/ \E t \in RobThreads : RobotsReturn(t)
    \/ Tick

SpecRobots == Init /\ [][NextRobots]_vars

\* what the status of a robots.txt fetch says the answer is: the rules for
\* 2xx (allow-all when they do not parse), allowed for 4xx, disallowed for
\* 5xx, the error for a network error
Expected(e) ==
    CASE e.status = "2xx" -> IF e.data = "disallow" THEN {"disallowed"} ELSE {"allowed"}
      [] e.status = "4xx" -> {"allowed"}
      [] e.status = "5xx" -> {"disallowed"}
      [] e.status = "0" -> {"error"}
      [] OTHER -> {"allowed", "disallowed", "error", "panic"}

\* C20: every IsAllowed call that got past url.Parse answers by the status of
\* the robots.txt fetch its entry came from: 2xx by the parsed rules (allowed
\* when they did not parse), 4xx allowed, 5xx disallowed, network error the
\* error; and the entry cached for a network error holds an empty robots.txt.
C20_DecidesByFetchStatus ==
    /\ \A t \in RobThreads :
          (rcall[t].pc = "done" /\ rcall[t].used # NoEntry) =>
              /\ rcall[t].res \in Expected(rcall[t].used)
              /\ rcall[t].fetched = "2xx-bad" => rcall[t].res = "allowed"
    /\ \A h \in Hosts : rcache[h].status = "0" => rcache[h].data = "allow"


---------------------------------------------------------------------------
(* SpecProxy: proxy.Manager with a pool of static proxies, enabled *)

\* atomic.AddInt32(&m.current, 1): int32 addition wraps round
AddInt32(c) == IF c = MaxInt32 THEN MinInt32 ELSE c + 1

\* Go's a % n for n > 0: the remainder has the sign of a
GoRem(a, n) == IF a >= 0 THEN a % n ELSE -((-(a + n)) % n)

\* lines 112-121: the index proxyFunc ends on when it starts the search at
\* index c with i more steps of the loop to go
RECURSIVE Search(_, _, _)
Search(ps, c, i) ==
    IF i = 0 THEN c
    ELSE LET n == (c + 1) % PoolSize
         IN  IF ps[n].Healthy THEN n ELSE Search(ps, n, i - 1)

\* proxyFunc lines 107-129 once the counter has been raised to c: the proxy
\* returned, or the panic of indexing the slice with a negative number
Pick(ps, c) ==
    LET cur == GoRem(c, PoolSize)
    IN  IF cur \notin PoolIndex THEN [kind |-> "panic", index |-> 0]
        ELSE IF ps[cur].Healthy THEN [kind |-> "proxy", index |-> cur]
        ELSE [kind |-> "proxy", index |-> Search(ps, cur, PoolSize)]

\* single calls are followed near 0 and near the ends of int32
NearEnd(c) == \/ (0 <= c /\ c < MaxCalls)
              \/ c >= MaxInt32 - MaxCalls
              \/ c < MinInt32 + MaxCalls

\* Manager.proxyFunc
ProxyFunc ==
    /\ NearEnd(pcurrent)
    /\ pret.kind # "panic"
    /\ pcurrent' = AddInt32(pcurrent)
    /\ pret' = Pick(proxies, pcurrent')
    /\ UNCHANGED <<hosts, clock, cbVars, crawlVars, auxNoProxy, proxies>>

\* the largest multiple of the pool size that keeps the counter MaxCalls short
\* of MaxInt32
LapCalls == ((MaxInt32 - MaxCalls - pcurrent) \div PoolSize) * PoolSize

\* a run of LapCalls proxyFunc calls with every proxy healthy: whole laps of
\* the pool, after which the next call returns what it would have returned
ProxyLaps ==
    /\ pcurrent >= 0
    /\ pcurrent < MaxCalls
    /\ pret.kind = "proxy"
    /\ \A i \in PoolIndex : proxies[i].Healthy
    /\ pcurrent' = pcurrent + LapCalls
    /\ UNCHANGED <<hosts, clock, cbVars, crawlVars, auxNoProxy, proxies, pret>>

\* all recorded results of the pool
ProxyEvents == LET RECURSIVE Sum(_)
                   Sum(i) == IF i < 0 THEN 0
                             ELSE proxies[i].Failures + proxies[i].Successes + Sum(i - 1)
               IN  Sum(PoolSize - 1)

\* the first proxy of the pool whose URL is u, PoolSize when there is none
FirstMatch(u) ==
    IF \E i \in PoolIndex : ProxyURLs[i + 1] = u
    THEN CHOOSE i \in PoolIndex : /\ ProxyURLs[i + 1] = u
                                  /\ \A j \in PoolIndex : ProxyURLs[j + 1] = u => i <= j
    ELSE PoolSize

\* proxy.ErrorRate < 0.5 for ErrorRate = Failures / (Successes + Failures)
RateBelowHalf(f, s) == 2 * f < f + s

\* the ProxyServer after RecordSuccess has found it
AfterSuccess(px) ==
    [Healthy |-> RateBelowHalf(px.Failures, px.Successes + 1),
     Failures |-> px.Failures, Successes |-> px.Successes + 1]

\* the ProxyServer after RecordFailure has found it
AfterFailure(px) ==
    [Healthy |-> RateBelowHalf(px.Failures + 1, px.Successes) /\ px.Failures + 1 < maxProxyFailures,
     Failures |-> px.Failures + 1, Successes |-> px.Successes]

\* Manager.RecordSuccess(proxyURL)
ProxyRecordSuccess(u) ==
    /\ ProxyEvents < MaxProxyEvents
    /\ pret.kind # "panic"
    /\ proxies' = IF FirstMatch(u) \in PoolIndex
                  THEN [proxies EXCEPT ![FirstMatch(u)] = AfterSuccess(@)]
                  ELSE proxies
    /\ UNCHANGED <<hosts, clock, cbVars, crawlVars, auxNoProxy, pcurrent, pret>>

\* Manager.RecordFailure(proxyURL)
ProxyRecordFailure(u) ==
    /\ ProxyEvents < MaxProxyEvents
    /\ pret.kind # "panic"
    /\ proxies' = IF FirstMatch(u) \in PoolIndex
                  THEN [proxies EXCEPT ![FirstMatch(u)] = AfterFailure(@)]
                  ELSE proxies
    /\ UNCHANGED <<hosts, clock, cbVars, crawlVars, auxNoProxy, pcurrent, pret>>

\* the urls Record calls are made with
RecordURLs == {ProxyURLs[i + 1] : i \in PoolIndex} \cup {OtherURL}

NextProxy ==
    \/ ProxyFunc
    \/ ProxyLaps
    \/ \E u \in RecordURLs : ProxyRecordSuccess(u)
    \/ \E u \in RecordURLs : ProxyRecordFailure(u)

SpecProxy == Init /\ [][NextProxy]_vars

---------------------------------------------------------------------------
(* Claims about the worker's gates and counters, checked under SpecCrawler *)

\* a circuit that opened at MaxClock can still go half-open: time runs one
\* resetTimeout and one tick further than MaxClock
LateClock == MaxClock + resetTimeout + 1

TickLate ==
    /\ clock >= MaxClock
    /\ clock < LateClock
    /\ clock' = clock + 1
    /\ fetched' = [u \in URLs |-> {t \in fetched[u] : clock' - t < CacheExpiration}]
    /\ UNCHANGED <<hosts, cbVars, auxVars, queue, store, wpc, wurl, retries, perr, wake,
                   scrapedAt, attempts, gates, due, results>>

NextCrawlerLate == NextCrawler \/ TickLate

SpecCrawlerLate == Init /\ [][NextCrawlerLate]_vars

\* the retry loop of w has ended on "robots.txt disallowed"
RobotsRefused(w) == wpc[w] = "finish" /\ perr[w] = "robots.txt disallowed"

\* no earlier processURL call for the url w holds got as far as the robots
\* gate: each was refused by the circuit breaker
NeverPastRobots(w) ==
    \A i \in 1..(Len(results[w]) - 1) : results[w][i] = "circuit breaker open"

\* C21: when robots.txt disallows the url a worker dequeued, the worker makes a
\* single processURL call for it and sends no GET for the url; the step that
\* refuses it writes no row and adds exactly one to robots_disallowed_total.
C21_RobotsDisallowedOnce ==
    /\ [](\A w \in Workers :
            (RobotsRefused(w) /\ NeverPastRobots(w)) =>
                /\ attempts[w] = 1
                /\ \A i \in 1..Len(gates[w]) : gates[w][i][1] # "http")
    /\ [][\A w \in Workers :
            (wpc[w] = "robots" /\ wpc'[w] = "finish" /\ perr'[w] = "robots.txt disallowed") =>
                /\ metrics'.robotsDisallowed = metrics.robotsDisallowed + 1
                /\ store' = store]_vars


---------------------------------------------------------------------------
(* Claims about the robots cache, checked under SpecRobots *)

\* the goroutines whose fetch of h's robots.txt is under way
FetchingRobots(h) == {t \in RobThreads : rcall[t].pc = "fetching" /\ rcall[t].host = h}

\* h's entry was fetched less than ttl ago
FreshEntry(h) == rcache[h] # NoEntry /\ clock - rcache[h].fetchedAt < robotsTTL

\* C22: a host's robots.txt is fetched at most once per ttl: no two fetches of
\* it are under way at once, and none is under way while the entry a fetch
\* stored less than ttl ago is in the cache.
C22_OneFetchPerTTL ==
    \A h \in Hosts :
       Cardinality(FetchingRobots(h)) + (IF FreshEntry(h) THEN 1 ELSE 0) <= 1


---------------------------------------------------------------------------
(* Claims about the proxy manager, checked under SpecProxy *)

\* the step is one proxyFunc call
IsProxyFuncStep == pcurrent' = AddInt32(pcurrent)

AllHealthy == \A i \in PoolIndex : proxies[i].Healthy

\* C23: a proxyFunc call made while the pool has a healthy proxy returns a
\* healthy proxy; and when every proxy is healthy and the call before returned
\* the proxy the counter points at, the call returns the next proxy of the pool
\* in cyclic order.
C23_RoundRobinSkipsUnhealthy ==
    [][IsProxyFuncStep =>
         /\ (\E i \in PoolIndex : proxies[i].Healthy) =>
               /\ pret'.kind = "proxy"
               /\ proxies[pret'.index].Healthy
         /\ (AllHealthy /\ pret.kind = "proxy" /\ pret.index = GoRem(pcurrent, PoolSize)) =>
               /\ pret'.kind = "proxy"
               /\ pret'.index = (pret.index + 1) % PoolSize]_vars

\* C40: whatever the rotation counter has been raised to, the index line 110
\* computes from it is an index of the pool, and so is the index of the proxy
\* a call returns.
C40_IndexWithinPool ==
    /\ GoRem(pcurrent, PoolSize) \in PoolIndex
    /\ pret.kind = "proxy" => pret.index \in PoolIndex

\* failures / (failures + successes) exceeds 0.5
RateAboveHalf(px) == 2 * px.Failures > px.Failures + px.Successes

\* C24: after RecordSuccess has counted a success for a proxy, the proxy is
\* unhealthy exactly when its error ratio exceeds 0.5; after RecordFailure has
\* counted a failure, exactly when the ratio exceeds 0.5 or it has at least 5
\* failures.
C24_ProxyHealthRule ==
    [][\A i \in PoolIndex :
         /\ proxies'[i].Successes = proxies[i].Successes + 1 =>
               (~proxies'[i].Healthy <=> RateAboveHalf(proxies'[i]))
         /\ proxies'[i].Failures = proxies[i].Failures + 1 =>
               (~proxies'[i].Healthy <=>
                    (RateAboveHalf(proxies'[i]) \/ proxies'[i].Failures >= maxProxyFailures))]_vars

---------------------------------------------------------------------------
(* Claims about what processURL tells the circuit breaker *)

\* the two rolling windows of a host's circuit
Events(c) == IF c = NoCircuit THEN <<<<>>, <<>>>> ELSE <<c.failures, c.successes>>

\* the step is the return of a processURL call of worker w
Returned(w) == Len(results'[w]) = Len(results[w]) + 1

\* the call of worker w has sent its GET
SentGetNow(w) == \E i \in 1..Len(gates[w]) : gates[w][i][1] = "http"

\* C25: a processURL call that fails with a network error, a non-2xx status or
\* a body read error makes exactly the RecordFailure(host) call; one that
\* returns invalid URL, robots.txt disallowed, a rate limit error or a dedup
\* hit leaves the breaker as it was; one refused by the circuit records no
\* event; one that returns success after the GET makes exactly the
\* RecordSuccess(host) call, whether or not the row was saved; and no step
\* inside a call records an event.
C25_CircuitAccounting ==
    [][/\ \A w \in Workers : Returned(w) =>
            LET e == results'[w][Len(results'[w])]
                h == HostOf(wurl[w])
            IN  /\ e \in HttpErrors => hosts' = RecordFailureCall(hosts, h, clock)
                /\ e \in {"invalid URL", "robots.txt disallowed", "rate limiting wait failed"}
                        => hosts' = hosts
                /\ e = "circuit breaker open"
                        => \A g \in Hosts : Events(hosts'[g]) = Events(hosts[g])
                /\ (e = "nil" /\ ~SentGetNow(w)) => hosts' = hosts
                /\ (e = "nil" /\ SentGetNow(w)) => hosts' = RecordSuccessCall(hosts, h)
       /\ (results' = results) => \A g \in Hosts : Events(hosts'[g]) = Events(hosts[g])]_vars

\* a failed GET has put its failure in the window, and a fetch whose row was
\* never saved has put its success there
C25_Witness ==
    \E w \in Workers :
        /\ Len(results[w]) >= 2
        /\ results[w][1] \in HttpErrors
        /\ results[w][Len(results[w])] = "nil"
        /\ SentGetNow(w)
        /\ store[wurl[w]] = NoRow
        /\ hosts[HostOf(wurl[w])] # NoCircuit
        /\ Len(hosts[HostOf(wurl[w])].failures) >= 1
        /\ Len(hosts[HostOf(wurl[w])].successes) >= 1

\* C26: whatever SaveScrapedData returns, the call goes on: the save step
\* returns nothing to the retry loop and touches neither the breaker nor the
\* counters, and the step after it returns nil, makes the RecordSuccess(host)
\* call, adds one to scraped_pages_total and ends the retry loop of the url.
C26_SaveFailureNotFatal ==
    [][\A w \in Workers :
        /\ (wpc[w] = "save" /\ wpc'[w] # "save") =>
                /\ wpc'[w] = "saved"
                /\ results'[w] = results[w]
                /\ hosts' = hosts
                /\ metrics' = metrics
        /\ (wpc[w] = "saved" /\ wpc'[w] # "saved") =>
                /\ wpc'[w] = "finish"
                /\ perr'[w] = "nil"
                /\ results'[w] = Append(results[w], "nil")
                /\ retries'[w] = retries[w]
                /\ attempts'[w] = attempts[w]
                /\ hosts' = RecordSuccessCall(hosts, HostOf(wurl[w]))
                /\ metrics'.scrapedPages = metrics.scrapedPages + 1
                /\ metrics'.scrapingErrors = metrics.scrapingErrors]_vars

\* a first call fetched the page, could not save the row, and returned nil
C26_Witness ==
    \E w \in Workers :
        /\ wpc[w] = "finish"
        /\ results[w] = <<"nil">>
        /\ attempts[w] = 1
        /\ SentGetNow(w)
        /\ store[wurl[w]] = NoRow
        /\ metrics.scrapedPages = 1
        /\ metrics.scrapingErrors = 0
        /\ hosts[HostOf(wurl[w])].successes = <<ZeroTime>>

---------------------------------------------------------------------------
(* The workers of SpecCrawler fed through a RedisQueue, whose LPush and     *)
(* BRPop may fail                                                           *)

NextEnqueue ==
    \/ \E u \in URLs, enqErr \in BOOLEAN : EnqueueURLOver(u, enqErr)
    \/ \E w \in Workers : DequeueError(w)
    \/ NextCrawler

SpecEnqueue == Init /\ [][NextEnqueue]_vars

\* the step appends one url to the queue, adds one to the counter and returns nil
EnqueuedOne ==
    /\ \E u \in URLs : queue' = Append(queue, u)
    /\ metrics'.queuedURLs = metrics.queuedURLs + 1
    /\ enqRet' = "nil"

\* C27: the queue grows and the queued-URLs counter moves only in a step that
\* appends one url, adds exactly one to the counter and returns nil; a step
\* in which EnqueueURL returns an error leaves the queue and the counter as
\* they were.
C27_EnqueueCounts ==
    [][/\ (Len(queue') > Len(queue)) => EnqueuedOne
       /\ (metrics'.queuedURLs # metrics.queuedURLs) => EnqueuedOne
       /\ (enqRet' = "nil" /\ enqRet # "nil") => EnqueuedOne
       /\ (enqRet' # "nil" /\ enqRet' # enqRet) =>
                /\ queue' = queue
                /\ metrics'.queuedURLs = metrics.queuedURLs]_vars

\* one EnqueueURL call went through and a later one came back with the error
C27_Witness ==
    /\ enqRet = "failed to enqueue URL"
    /\ metrics.queuedURLs = 1
    /\ queue = <<GoodURL>>

---------------------------------------------------------------------------
(* Claims about the breaker's entries and windows *)

\* C28: a step that creates the entry of a host leaves its circuit Closed;
\* when the step is a RecordSuccess or RecordFailure call (no goroutine is
\* inside IsAllowed's create branch) the new entry holds exactly that one
\* event; and GetState answers Closed for a host that has no entry.
C28_FreshHostStaysClosed ==
    /\ [](\A h \in Hosts : hosts[h] = NoCircuit => StateOf(hosts[h]) = circuitClosed)
    /\ [][\A h \in Hosts : (hosts[h] = NoCircuit /\ hosts'[h] # NoCircuit) =>
            /\ hosts'[h].state = circuitClosed
            /\ hosts'[h].halfOpenSuccess = 0
            /\ (tpc' = tpc) =>
                    \/ hosts'[h].failures = <<clock>> /\ hosts'[h].successes = <<>>
                    \/ hosts'[h].failures = <<>> /\ hosts'[h].successes = <<ZeroTime>>]_vars

\* a host whose entry holds one failure and nothing else is Closed
C28_Witness ==
    \E h \in Hosts :
        /\ hosts[h] # NoCircuit
        /\ hosts[h].state = circuitClosed
        /\ Len(hosts[h].failures) = 1
        /\ hosts[h].successes = <<>>
        /\ \A t \in Threads : tpc[t] = "idle"

\* the step is a RecordFailure(h) call that ran the Closed case
RecordedFailureClosed(h) ==
    /\ StateOf(hosts[h]) = circuitClosed
    /\ hosts'[h] # NoCircuit
    /\ hosts'[h].failures # <<>>
    /\ hosts'[h].failures # Events(hosts[h])[1]

\* C29: after a RecordFailure call in Closed, the failure window holds no
\* event older than hostErrorExpiry, and the call trips the circuit exactly
\* when the events no older than hostErrorExpiry meet the ratio and the floor.
C29_EventsAgeOut ==
    [][\A h \in Hosts : RecordedFailureClosed(h) =>
            /\ hosts'[h].failures = cleanExpiredEvents(hosts'[h].failures, clock)
            /\ (hosts'[h].state = circuitOpen) <=>
                    TripCondition(Len(cleanExpiredEvents(hosts'[h].failures, clock)),
                                  Len(cleanExpiredEvents(hosts'[h].successes, clock)))]_vars

\* window w has become v by one append of t that respects the cap
Slid(w, v, t) ==
    \/ Len(w) < rollingWindowSize /\ v = Append(w, t)
    \/ Len(w) = rollingWindowSize /\ v = Append(Tail(w), t)

\* C30: the failure window and the success window of every host never hold
\* more than rollingWindowSize events, and a window changes only by being
\* emptied or by one append that, at the cap, drops the oldest event.
C30_WindowsCapped ==
    /\ [](\A h \in Hosts : hosts[h] # NoCircuit =>
                /\ Len(hosts[h].failures) <= rollingWindowSize
                /\ Len(hosts[h].successes) <= rollingWindowSize)
    /\ [][\A h \in Hosts : (hosts[h] # NoCircuit /\ hosts'[h] # NoCircuit) =>
            /\ \/ hosts'[h].failures = hosts[h].failures
               \/ hosts'[h].failures = <<>>
               \/ Slid(hosts[h].failures, hosts'[h].failures, clock)
            /\ \/ hosts'[h].successes = hosts[h].successes
               \/ hosts'[h].successes = <<>>
               \/ Slid(hosts[h].successes, hosts'[h].successes, ZeroTime)]_vars

\* the success window of a Closed circuit is at the cap, with failures beside it
C30_Witness ==
    \E h \in Hosts :
        /\ hosts[h] # NoCircuit
        /\ hosts[h].state = circuitClosed
        /\ Len(hosts[h].successes) = rollingWindowSize
        /\ Len(hosts[h].failures) >= 1

\* the step is a RecordSuccess or RecordFailure call for host h
Records(h) == \E t \in Threads : RecordSuccess(t, h) \/ RecordFailure(t, h)

\* C38: a RecordSuccess or RecordFailure call for a host whose circuit is Open
\* leaves the circuit as it was: state, openedAt, halfOpenSuccess and both
\* windows; and in every state the two switches map an Open circuit to itself.
C38_OpenIgnoresResults ==
    /\ [](\A h \in Hosts :
            StateOf(hosts[h]) = circuitOpen =>
               (/\ RecordSuccessSwitch(hosts[h]) = hosts[h]
                /\ RecordFailureSwitch(hosts[h], clock) = hosts[h]))
    /\ [][\A h \in Hosts :
            (StateOf(hosts[h]) = circuitOpen /\ Records(h)) => (hosts'[h] = hosts[h])]_vars

\* a result arrived for a host whose circuit was Open, after the moment it
\* opened, and the circuit is still Open with that moment as its openedAt
C38_Witness ==
    \E h \in Hosts :
        /\ lateResults[h]
        /\ StateOf(hosts[h]) = circuitOpen
        /\ hosts[h].openedAt < clock
        /\ clock - hosts[h].openedAt <= resetTimeout

---------------------------------------------------------------------------
(* Claims about the outcome counters and the gates' side effects *)

\* the step ends the retry loop of the url worker w holds
LoopEnds(w) == wpc[w] = "finish" /\ wpc'[w] = "idle"

\* the last processURL call of worker w returned success
LastSucceeded(w) == results[w] # <<>> /\ results[w][Len(results[w])] = "nil"

\* C31: scraping_errors_total moves only when a retry loop ends, by one when
\* the last call failed and not at all when it succeeded; scraped_pages_total
\* moves only by one, in the return of a call that fetched the page, never in
\* the return of a dedup hit or of a failed call; and no url sees a second
\* call after a successful one, so each url adds at most one to either counter.
C31_CountersPerURL ==
    /\ [](\A w \in Workers : \A i \in 1..Len(results[w]) :
                results[w][i] = "nil" => i = Len(results[w]) /\ wpc[w] = "finish")
    /\ [][/\ \A w \in Workers : LoopEnds(w) =>
               (/\ metrics'.scrapingErrors =
                       metrics.scrapingErrors + (IF LastSucceeded(w) THEN 0 ELSE 1)
                /\ metrics'.scrapedPages = metrics.scrapedPages)
          /\ (\A w \in Workers : ~LoopEnds(w)) =>
               (metrics'.scrapingErrors = metrics.scrapingErrors)
          /\ \A w \in Workers : Returned(w) =>
               (metrics'.scrapedPages = metrics.scrapedPages +
                   (IF results'[w][Len(results'[w])] = "nil" /\ SentGetNow(w) THEN 1 ELSE 0))
          /\ (\A w \in Workers : ~Returned(w)) =>
               (metrics'.scrapedPages = metrics.scrapedPages)]_vars

\* two urls went through the worker: one was fetched, the other given up
C31_Witness ==
    /\ metrics.queuedURLs = 2
    /\ metrics.scrapedPages = 1
    /\ metrics.scrapingErrors = 1
    /\ queue = <<>>
    /\ \A w \in Workers : wpc[w] = "idle"

\* worker w is about to call processURL for a url whose row is younger than CacheExpiration
YoungRow(w) ==
    /\ wpc[w] = "call"
    /\ ~ParseURL(wurl[w]).err
    /\ store[wurl[w]] # NoRow
    /\ clock - store[wurl[w]] < CacheExpiration

\* the step is the first of a processURL call of worker w
CallStarts(w) == wpc[w] = "call" /\ wpc'[w] # "call"

\* the step returns nil to worker w and touches neither the row, the breaker,
\* the limiters nor the counters
SilentSuccess(w) ==
    /\ wpc'[w] = "finish"
    /\ results'[w] = Append(results[w], "nil")
    /\ perr'[w] = "nil"
    /\ UNCHANGED <<store, hosts, limVars, metrics>>

\* C32 as worded: a processURL call for a url whose row is younger than
\* CacheExpiration returns success without side effects.
C32_YoungRowSilent ==
    [][\A w \in Workers : (YoungRow(w) /\ CallStarts(w)) => SilentSuccess(w)]_vars

\* C32: a processURL call for a url whose row is younger than CacheExpiration
\* either reads the row, and then returns success leaving the row, the
\* breaker, the limiters and the counters as they were, or fails to read it
\* and goes on to the circuit gate; and the worker counts no error for a url
\* whose last call stopped at the dedup gate.
C32_DedupHitSilent ==
    [][\A w \in Workers :
        /\ (YoungRow(w) /\ CallStarts(w)) =>
                \/ SilentSuccess(w)
                \/ /\ wpc'[w] = "circuit"
                   /\ UNCHANGED <<store, hosts, limVars, metrics, results>>
        /\ (CallStarts(w) /\ gates'[w] = <<<<"parse", TRUE>>, <<"dedup", FALSE>>>>) =>
                (YoungRow(w) /\ SilentSuccess(w))
        /\ (LoopEnds(w) /\ gates[w] = <<<<"parse", TRUE>>, <<"dedup", FALSE>>>>) =>
                metrics' = metrics]_vars

\* a url fetched and saved was dequeued again and its call stopped at the dedup gate
C32_Witness ==
    \E w \in Workers :
        /\ wpc[w] = "finish"
        /\ gates[w] = <<<<"parse", TRUE>>, <<"dedup", FALSE>>>>
        /\ results[w] = <<"nil">>
        /\ store[wurl[w]] # NoRow
        /\ metrics.scrapedPages = 1
        /\ metrics.scrapingErrors = 0

---------------------------------------------------------------------------
(* The worker under either setting of cfg.Crawler.RespectRobots *)

InitEitherConfig == \E respect \in BOOLEAN : NewCrawlerWith(respect)

SpecEitherConfig == InitEitherConfig /\ [][NextCrawler]_vars

\* worker w's call has run the robots check
RanRobots(w) == \E i \in 1..Len(gates[w]) : gates[w][i][1] = "robots"

---------------------------------------------------------------------------
(* Claims about the worker's polling *)

\* C34: a poll that brings no url, because the queue was empty or Dequeue
\* failed, puts the worker to sleep for at least the 500 ms of ErrSleep; the
\* wake time stands while it sleeps; and it polls again only from the top of
\* the loop, which it reaches no earlier than the wake time.
C34_EmptyPollBacksOff ==
    [][/\ \A w \in Workers :
            /\ (wpc[w] = "idle" /\ wpc'[w] # "idle" /\ wurl'[w] = "") =>
                    (/\ wpc'[w] = "sleep"
                     /\ wake'[w] >= clock + ErrSleep
                     /\ queue' = queue)
            /\ (wpc[w] = "sleep" /\ wpc'[w] = "sleep") => wake'[w] = wake[w]
            /\ (wpc[w] = "sleep" /\ wpc'[w] # "sleep") =>
                    (wpc'[w] = "idle" /\ clock >= wake[w])
       /\ (Len(queue') < Len(queue)) =>
            (\E w \in Workers : wpc[w] = "idle" /\ wurl'[w] = Head(queue))]_vars

\* a worker whose Dequeue failed on a queue that holds a url has slept its time out
C34_Witness ==
    \E w \in Workers :
        /\ wpc[w] = "sleep"
        /\ queue # <<>>
        /\ wake[w] = ErrSleep
        /\ clock >= wake[w]
        /\ enqRet = "failed to enqueue URL"

---------------------------------------------------------------------------
(* SpecRun: the workers left running, no Stop and no cancellation *)

\* one step of worker w while the stop channel stays open
RunStep(w) ==
    \/ DequeueEmpty(w) \/ SleepDone(w) \/ Dequeue(w) \/ BackoffDone(w)
    \/ \E lookupErr \in BOOLEAN : ParseAndDedup(w, lookupErr)
    \/ CircuitGate(w)
    \/ \E answer \in {"allowed", "disallowed", "error"} : RobotsGate(w, answer)
    \/ \E waitErr \in BOOLEAN : WaitGate(w, waitErr)
    \/ HttpGet(w)
    \/ \E err \in HttpErrors : HttpFailed(w, err)
    \/ HttpOk(w)
    \/ \E saveErr \in BOOLEAN : SaveScrapedData(w, saveErr)
    \/ FetchDone(w)
    \/ Finish(w)

\* a url waits in the queue or in a worker's hands
WorkLeft == queue # <<>> \/ \E w \in Workers : wurl[w] # ""

\* time goes on past MaxClock while there is work left and a worker's
\* time.Sleep has not ended: it passes until the next sleep ends
TickOn ==
    /\ ~stopChan
    /\ clock >= MaxClock
    /\ WorkLeft
    /\ PendingWakes # {}
    /\ clock' = CHOOSE m \in PendingWakes : \A n \in PendingWakes : m <= n
    /\ fetched' = [u \in URLs |-> {t \in fetched[u] : clock' - t < CacheExpiration}]
    /\ UNCHANGED <<hosts, cbVars, auxVars, queue, store, wpc, wurl, retries, perr, wake,
                   scrapedAt, attempts, gates, due, results>>

\* the caller enqueues as many urls as there are in URLs
RunEnq == Cardinality(URLs)

\* Crawler.EnqueueURL, called RunEnq times
EnqueueRun(u) == metrics.queuedURLs < RunEnq /\ EnqueueURL(u)

NextRun ==
    \/ \E u \in URLs : EnqueueRun(u)
    \/ \E w \in Workers : RunStep(w)
    \/ Tick
    \/ TickOn

\* goroutines are scheduled, time passes, and every call a worker waits in
\* comes back
FairRun ==
    /\ \A w \in Workers : WF_vars(RunStep(w))
    /\ WF_vars(Tick \/ TickOn)

SpecRun == Init /\ [][NextRun]_vars /\ FairRun

\* the urls taken from the queue whose first processURL call has begun: every
\* successful EnqueueURL adds one to queued_urls_total and one url to the
\* queue, and a worker that has taken a url and not yet called processURL
\* stands at "call" with no attempt made
Started ==
    metrics.queuedURLs - Len(queue)
        - Cardinality({w \in Workers : wpc[w] = "call" /\ attempts[w] = 0})

\* C35: the queue is first in, first out, so the n-th url enqueued has been
\* passed to processURL once n urls have been; and once n urls are enqueued,
\* n urls are passed to processURL in the end.
C35_EnqueuedIsProcessed ==
    \A n \in 1..RunEnq : (metrics.queuedURLs >= n) ~> (Started >= n)

\* every url that could be enqueued was, and each has been through processURL
C35_Witness ==
    /\ metrics.queuedURLs = RunEnq
    /\ Started = RunEnq
    /\ metrics.scrapedPages + metrics.scrapingErrors >= 1
    /\ \A w \in Workers : wpc[w] = "sleep"

---------------------------------------------------------------------------
(* SpecStopFine: the worker loop with Crawler.Stop, the select on the stop  *)
(* channel and the Dequeue call it leads to taken as separate steps         *)

\* SelectDefault that does not look at the stop channel
SelectDefault_IgnoresStop(w) ==
    /\ wpc[w] = "idle"
    /\ wpc' = [wpc EXCEPT ![w] = "polling"]
    /\ UNCHANGED <<hosts, clock, cbVars, auxVars, queue, store, wurl, retries, perr, wake,
                   scrapedAt, attempts, gates, fetched, due, results>>

\* worker lines 103-112: neither c.stopChan nor ctx.Done() is ready, select
\* takes the default case and the Dequeue call begins
SelectDefault(w) ==
    /\ wpc[w] = "idle"
    /\ ~stopChan
    /\ wpc' = [wpc EXCEPT ![w] = "polling"]
    /\ UNCHANGED <<hosts, clock, cbVars, auxVars, queue, store, wurl, retries, perr, wake,
                   scrapedAt, attempts, gates, fetched, due, results>>

\* worker lines 113-129: the Dequeue call returns "" and no error; sleep, continue
PollEmpty(w) ==
    /\ wpc[w] = "polling"
    /\ LET d == MemDequeue(queue)
       IN  /\ d.err = "nil" /\ d.url = ""
           /\ queue' = d.queue
    /\ wpc' = [wpc EXCEPT ![w] = "sleep"]
    /\ wake' = [wake EXCEPT ![w] = clock + PollSleep]
    /\ UNCHANGED <<hosts, clock, cbVars, auxVars, store, wurl, retries, perr,
                   scrapedAt, attempts, gates, fetched, due, results>>

\* worker lines 113-140: the Dequeue call returns the head; the retry loop starts
PollTake(w) ==
    /\ wpc[w] = "polling"
    /\ LET d == MemDequeue(queue)
       IN  /\ d.err = "nil" /\ d.url # ""
           /\ queue' = d.queue
           /\ wurl' = [wurl EXCEPT ![w] = d.url]
    /\ retries' = [retries EXCEPT ![w] = 0]
    /\ attempts' = [attempts EXCEPT ![w] = 0]
    /\ perr' = [perr EXCEPT ![w] = "nil"]
    /\ results' = [results EXCEPT ![w] = <<>>]
    /\ wpc' = [wpc EXCEPT ![w] = IF 0 <= MaxRetries THEN "call" ELSE "finish"]
    /\ lateTakes' = [lateTakes EXCEPT ![w] = IF stopChan THEN @ + 1 ELSE @]
    /\ UNCHANGED <<hosts, clock, cbVars, auxNoLate, store, wake, scrapedAt, gates, fetched, due>>

\* one step of worker w
FineStep(w) ==
    \/ SelectDefault(w) \/ PollEmpty(w) \/ PollTake(w)
    \/ SleepDone(w) \/ BackoffDone(w)
    \/ \E lookupErr \in BOOLEAN : ParseAndDedup(w, lookupErr)
    \/ CircuitGate(w)
    \/ \E answer \in {"allowed", "disallowed", "error"} : RobotsGate(w, answer)
    \/ \E waitErr \in BOOLEAN : WaitGate(w, waitErr)
    \/ HttpGet(w)
    \/ \E err \in HttpErrors : HttpFailed(w, err)
    \/ HttpOk(w)
    \/ \E saveErr \in BOOLEAN : SaveScrapedData(w, saveErr)
    \/ FetchDone(w)
    \/ Finish(w)
    \/ WorkerExit(w)

NextStopFine ==
    \/ \E u \in URLs : EnqueueURL(u)
    \/ \E w \in Workers : FineStep(w)
    \/ Stop
    \/ StopReturn
    \/ Tick
    \/ TickPast

SpecStopFine == Init /\ [][NextStopFine]_vars

\* C36: with the stop channel closed, a worker at its loop check leaves the
\* loop and does not begin a Dequeue call; a Dequeue call begins only while
\* the channel is open; and the Dequeue calls of a worker return at most one
\* url after the channel was closed, the one of a call begun before.
C36_AtMostOneAfterStop ==
    /\ [](\A w \in Workers : lateTakes[w] <= 1)
    /\ [][\A w \in Workers :
            /\ (stopChan /\ wpc[w] = "idle" /\ wpc'[w] # "idle") => wpc'[w] = "exited"
            /\ (wpc[w] # "polling" /\ wpc'[w] = "polling") => (~stopChan /\ wpc[w] = "idle")
            /\ (wpc[w] = "exited") => wpc'[w] = "exited"]_vars

\* a worker took a url from a Dequeue call that the stop signal overtook,
\* worked it off and left its loop
C36_Witness ==
    \E w \in Workers :
        /\ lateTakes[w] = 1
        /\ wpc[w] = "exited"
        /\ stopPc = "returned"
        /\ metrics.scrapedPages + metrics.scrapingErrors >= 1

---------------------------------------------------------------------------
(* SpecStopTwice: the worker loop with Crawler.Stop called, and called again *)

\* Stop lines 89-90, called after an earlier Stop has returned: c.stopChan is
\* closed already and close of a closed channel is a run-time panic
StopAgain ==
    /\ stopPc = "returned"
    /\ stopPc' = IF stopChan THEN "panicked" ELSE "waiting"
    /\ stopChan' = TRUE
    /\ UNCHANGED <<hosts, clock, cbVars, crawlVars, auxNoStop>>

NextStopTwice ==
    \/ \E u \in URLs : EnqueueURL(u)
    \/ \E w \in Workers : WorkerStep(w)
    \/ Stop
    \/ StopReturn
    \/ StopAgain
    \/ Tick
    \/ TickPast

SpecStopTwice == Init /\ [][NextStopTwice]_vars

\* C39: a Stop call made after an earlier Stop call has returned returns as
\* well: no Stop call ends in a panic, and the step of the second call leaves
\* the workers exited.
C39_SecondStopReturns ==
    /\ [](stopPc # "panicked")
    /\ [][stopPc = "returned" =>
            (stopPc' \in {"returned", "waiting"} /\ \A w \in Workers : wpc'[w] = "exited")]_vars

=============================================================================
